---- MODULE Spec2Model ----
(***************************************************************************)
(* Client-side synchronization core of the session detail view            *)
(* (src/src/views/SessionDetailView.vue): the optimistic presence matrix,  *)
(* the resync (fetchData), the cost cache (fetchCosts), the polling        *)
(* fallback and the change channel, against a single remote store.         *)
(*                                                                         *)
(* Scheduling is one event loop: every action below is one synchronous     *)
(* run of code between two awaits.  A remote call is issued by the code,   *)
(* served by the store (Serve...), and its continuation runs when the      *)
(* response arrives (Recv...).  The calls in flight are kept in bags: the  *)
(* program holds them as pending promises, in no order.                    *)
(***************************************************************************)
EXTENDS Integers, FiniteSets, Sequences, Bags, TLC

\* ---------------------------------------------------------------- bounds
Members == {"m1"}
Intervals == {"i1"}

MaxSyncs == 2      \* fetchData calls in flight together
MaxWrites == 2     \* upsert/update calls in flight together
MaxCosts == 2      \* calculate_session_costs calls in flight together
MaxToggles == 2    \* operator toggles in one run
MaxEdits == 1      \* edits of the remote store by other operators in one run
MaxStarts == 1     \* resyncs started, after the initial one, before the store is stable
MaxFaults == 1     \* remote calls that fail in one run
LiveMax == 1       \* each of the four above, in the runs of the convergence claim

Codes == {"c1", "c2"}  \* payment codes
MaxPayReqs == 2    \* check_qr_status calls in flight together
MaxStatusReqs == 3 \* check_qr_status calls in one run
TeardownMax == 2   \* check_qr_status calls in the runs of the teardown claim

EmptyFn == [x \in {} |-> FALSE]

VARIABLES
    \* the remote store
    rRegs,          \* table session_registrations: member_id -> is_registered_not_attended
    rPres,          \* table interval_presence: <<member_id, interval_id>> -> is_present
    rStatus,        \* sessions.status
    \* the view's refs
    phase,          \* "setup" | "mounted" | "unmounted"
    auth,           \* authStore.isAuthenticated
    session,        \* session.value?.status, "null" before the first load
    intervals,      \* intervals.value (the ids)
    allMembers,     \* allMembers.value (the ids)
    isEditingSession, \* isEditingSession.value
    sessionForm,    \* sessionForm.value.title: "" | "stored" | "typed"
    registrations,  \* registrations.value: member_id -> is_registered_not_attended
    presence,       \* presence.value: member_id -> (interval_id -> boolean)
    costs,          \* costs.value: member_id -> intervals_count
    pollTimer,      \* pollTimer is set
    viewTimers,     \* setInterval registrations of the view not yet cleared
    realtimeChannel,\* the channel is subscribed
    \* calls in flight
    syncs,          \* fetchData activations
    writes,         \* togglePresence / toggleAbsent activations
    costReqs,       \* fetchCosts activations
    \* bookkeeping of the run
    budget,         \* what is left of MaxToggles, MaxEdits, MaxStarts, MaxFaults
    ev,             \* the step just taken
    costsFresh,     \* costs.value comes from a call invoked no earlier than the last confirmation
    dirty,          \* a cell or registration changed since fetchCosts was last invoked
    \* the payment dialog (PaymentQRModal) and its poller (usePaymentPolling)
    payAlive,       \* the dialog component is mounted
    isOpen,         \* effectiveIsOpen: props.isOpen || props.show
    code,           \* effectiveCode, "" when there is none
    data,           \* data.value of the poller
    dataCode,       \* the code data.value was asked for, "" for the initial one
    isPolling,      \* isPolling.value
    timer,          \* timer is set (the handle of the last setInterval)
    liveTimers,     \* setInterval registrations not yet cleared
    error,          \* error.value is set
    payReqs,        \* checkStatus activations waiting for check_qr_status
    rPaid,          \* the payment codes the remote store holds as fully paid
    closeTimers,    \* pending setTimeout callbacks of the success watcher
    emits,          \* 'success' events emitted
    paidCount,      \* times data.value.success went from false to true
    payLeft,        \* status requests left to the run
    \* mergeTimeIntervals (utils/time.ts)
    mergeIn,        \* the argument: a list of intervals
    mergeOut,       \* what the call returned: the ranges of the string, in order
    \* the auth store and the router
    user,           \* user.value is set
    profile,        \* profile.value?.role: "none" | "admin" | "member"
    loading,        \* loading.value
    listeners,      \* onAuthStateChange callbacks registered
    rSession,       \* the auth service holds a session of the user
    rRole,          \* members.role of the user's row, "none" when there is no row
    navs,           \* beforeEach activations waiting in authStore.initialize()
    profs,          \* fetchProfile calls of the auth callbacks in flight
    route,          \* the route the last navigation ended on
    navTo,          \* the route the last decided navigation asked for
    routeLeft       \* navigations and auth changes left to the run

remoteVars == <<rRegs, rPres, rStatus>>
formVars == <<isEditingSession, sessionForm>>
mergeVars == <<mergeIn, mergeOut>>
routeVars == <<user, profile, loading, listeners, rSession, rRole, navs, profs, route, navTo,
               routeLeft>>
otherVars == <<mergeVars, routeVars>>
listVars == <<session, intervals, allMembers, formVars, registrations, presence>>
lifeVars == <<phase, auth, pollTimer, viewTimers, realtimeChannel>>
ghostVars == <<costsFresh, dirty>>
coreVars == <<rRegs, rPres, rStatus, phase, auth, session, intervals, allMembers, isEditingSession, sessionForm, registrations,
              presence, costs, pollTimer, viewTimers, realtimeChannel, syncs, writes, costReqs,
              budget, costsFresh, dirty>>
viewVars == <<coreVars, otherVars>>
payVars == <<payAlive, isOpen, code, data, dataCode, isPolling, timer, liveTimers, error, payReqs, rPaid,
             closeTimers, emits, paidCount, payLeft>>
vars == <<viewVars, ev, payVars>>

\* ---------------------------------------------------------------- helpers
\* a call in flight: put into, taken out of, replaced in a bag
Put(bag, x) == bag (+) SetToBag({x})
Take(bag, x) == bag (-) SetToBag({x})
Swap(bag, x, y) == Put(Take(bag, x), y)

\* a fetchData activation waiting at the await named pc; st, regs, rows hold the
\* answer of the store once it is served, filter the ids the presence read asks for,
\* held the presence rows the store held when it answered the presence read
Sync(pc, st, regs, rows, filter) ==
    [pc |-> pc, st |-> st, regs |-> regs, rows |-> rows, filter |-> filter, held |-> EmptyFn]
Waiting(pc) == Sync(pc, "wait", EmptyFn, EmptyFn, {})

\* obj[key] = val in JavaScript: sets the key, creating it when missing
SetKey(f, k, v) == [x \in DOMAIN f \cup {k} |-> IF x = k THEN v ELSE f[x]]

\* presence[memberId]?.[intervalId] || false, and !undefined = true
CellVal(m, i) ==
    IF m \in DOMAIN presence /\ i \in DOMAIN presence[m] THEN presence[m][i] ELSE FALSE

\* what the store holds for a pair: no row counts as not present
RemoteVal(m, i) == IF <<m, i>> \in DOMAIN rPres THEN rPres[<<m, i>>] ELSE FALSE

\* calculate_session_costs: one row per registration, computed from the store's facts
CalcCosts(regs, pres) ==
    [m \in DOMAIN regs |->
        IF regs[m] THEN 0
        ELSE Cardinality({i \in Intervals : <<m, i>> \in DOMAIN pres /\ pres[<<m, i>>]})]

\* FoldMatrix without the default fill: only the rows that were returned
MutFoldMatrix(regs, ivals, rows) ==
    [m \in DOMAIN regs |->
        [i \in {c[2] : c \in {d \in DOMAIN rows : d[1] = m}} |-> rows[<<m, i>>]]]

\* the matrix fetchData builds from the lists and the presence rows it got
FoldMatrix(regs, ivals, rows) ==
    [m \in DOMAIN regs |->
        [i \in ivals \cup {c[2] : c \in {d \in DOMAIN rows : d[1] = m}} |->
            IF <<m, i>> \in DOMAIN rows THEN rows[<<m, i>>] ELSE FALSE]]

\* every fetchCosts call of the bag was invoked before the confirmation made now
RECURSIVE OlderAll(_)
OlderAll(bag) ==
    IF BagToSet(bag) = {} THEN EmptyBag
    ELSE LET c == CHOOSE x \in BagToSet(bag) : TRUE IN
         OlderAll([x \in BagToSet(bag) \ {c} |-> bag[x]])
            (+) [x \in {[c EXCEPT !.fresh = FALSE]} |-> bag[c]]

\* every toggleAbsent call of the bag holds a registration object that has left the list
RECURSIVE DetachAll(_)
DetachAll(bag) ==
    IF BagToSet(bag) = {} THEN EmptyBag
    ELSE LET w == CHOOSE x \in BagToSet(bag) : TRUE IN
         DetachAll([x \in BagToSet(bag) \ {w} |-> bag[x]])
            (+) [x \in {IF w.kind = "abs" THEN [w EXCEPT !.detached = TRUE] ELSE w} |-> bag[w]]

Spend(what) == [budget EXCEPT ![what] = @ - 1]

\* nothing is left: the store changes no more (but for the writes still in flight),
\* the operator toggles no more, and every remote read succeeds
NoBudget == [toggles |-> 0, edits |-> 0, starts |-> 0, faults |-> 0]
stable == budget = NoBudget

\* ---------------------------------------------------------------- payment snapshots
\* data.value as usePaymentPolling creates it
InitialData == [success |-> FALSE, paid |-> 0, total |-> 0]
\* the two answers of check_qr_status the poller tells apart
PendingData == [success |-> FALSE, paid |-> 0, total |-> 1]
PaidData == [success |-> TRUE, paid |-> 1, total |-> 1]

\* the dialog as its setup leaves it: not shown, no snapshot selected
\* no call of mergeTimeIntervals
MergeIdle ==
    /\ mergeIn = << >>
    /\ mergeOut = << >>

\* the auth store as created (user null, profile null, loading true), no navigation
RouteIdle ==
    /\ user = FALSE
    /\ profile = "none"
    /\ loading = TRUE
    /\ listeners = 0
    /\ rSession = FALSE
    /\ rRole = "none"
    /\ navs = EmptyBag
    /\ profs = 0
    /\ route = "none"
    /\ navTo = "none"
    /\ routeLeft = 0

OtherIdle == MergeIdle /\ RouteIdle

PayIdle ==
    /\ isOpen = FALSE
    /\ code = ""
    /\ data = InitialData
    /\ dataCode = ""
    /\ isPolling = FALSE
    /\ timer = FALSE
    /\ liveTimers = 0
    /\ error = FALSE
    /\ payReqs = EmptyBag
    /\ rPaid = {}
    /\ closeTimers = 0
    /\ emits = 0
    /\ paidCount = 0

\* ---------------------------------------------------------------- initial state
Init ==
    /\ PayIdle
    /\ OtherIdle
    /\ payAlive = FALSE
    /\ payLeft = 0
    /\ rRegs \in {EmptyFn, [m \in {"m1"} |-> FALSE]}
    /\ rPres = EmptyFn
    /\ rStatus \in {"active", "closed"}
    /\ phase = "setup"
    /\ auth \in BOOLEAN
    /\ session = "null"
    /\ intervals = {}
    /\ allMembers = {}
    /\ isEditingSession = FALSE
    /\ sessionForm = ""
    /\ registrations = EmptyFn
    /\ presence = EmptyFn
    /\ costs = EmptyFn
    /\ pollTimer = FALSE
    /\ viewTimers = 0
    /\ realtimeChannel = FALSE
    /\ syncs = EmptyBag
    /\ writes = EmptyBag
    /\ costReqs = EmptyBag
    /\ budget = [toggles |-> MaxToggles, edits |-> MaxEdits, starts |-> MaxStarts,
                 faults |-> MaxFaults]
    /\ ev = "init"
    /\ costsFresh = TRUE
    /\ dirty = TRUE

\* ---------------------------------------------------------------- usePaymentPolling
\* checkStatus() up to its await, reading the code c: nothing with an empty code,
\* else check_qr_status is called with it
IssueCheck(c) ==
    IF c = ""
    THEN UNCHANGED <<payReqs, payLeft>>
    ELSE /\ payLeft > 0
         /\ BagCardinality(payReqs) < MaxPayReqs
         /\ payReqs' = Put(payReqs, [code |-> c, st |-> "wait"])
         /\ payLeft' = payLeft - 1

\* startPolling() without its guard on isPolling
MutStartPolling(c) ==
    /\ isPolling' = TRUE
    /\ IssueCheck(c)
    /\ timer' = TRUE
    /\ liveTimers' = liveTimers + 1

\* startPolling(), the code being c
StartPolling(c) ==
    IF isPolling
    THEN UNCHANGED <<isPolling, timer, liveTimers, payReqs, payLeft>>
    ELSE /\ isPolling' = TRUE
         /\ IssueCheck(c)
         /\ timer' = TRUE
         /\ liveTimers' = liveTimers + 1

\* stopPolling() without its clearInterval
MutStopPolling ==
    /\ liveTimers' = liveTimers
    /\ timer' = FALSE
    /\ isPolling' = FALSE

\* stopPolling()
StopPolling ==
    /\ liveTimers' = IF timer THEN liveTimers - 1 ELSE liveTimers
    /\ timer' = FALSE
    /\ isPolling' = FALSE

\* the setInterval callback: checkStatus
PayTick ==
    /\ liveTimers > 0
    /\ IssueCheck(code)
    /\ ev' = "payTick"
    /\ UNCHANGED <<viewVars, payAlive, isOpen, code, data, dataCode, isPolling, timer, liveTimers, error,
                   rPaid, closeTimers, emits, paidCount>>

\* check_qr_status answers from the store as it is
ServeStatus(q) ==
    /\ q.st = "wait"
    /\ payReqs' = Swap(payReqs, q, [q EXCEPT !.st = IF q.code \in rPaid THEN "paid" ELSE "pending"])
    /\ ev' = "step"
    /\ UNCHANGED <<viewVars, payAlive, isOpen, code, data, dataCode, isPolling, timer, liveTimers, error,
                   rPaid, closeTimers, emits, paidCount, payLeft>>

\* WatchSuccess that sets the timeout whenever success is true after a response
MutWatchSuccess ==
    /\ paidCount' = IF ~data.success /\ data'.success THEN paidCount + 1 ELSE paidCount
    /\ closeTimers' = IF data'.success /\ payAlive THEN closeTimers + 1 ELSE closeTimers

\* the watcher of data.value.success, which lives as long as the dialog: a change
\* to true sets the 1500 ms timeout
WatchSuccess ==
    /\ paidCount' = IF ~data.success /\ data'.success THEN paidCount + 1 ELSE paidCount
    /\ closeTimers' = IF ~data.success /\ data'.success /\ payAlive
                      THEN closeTimers + 1 ELSE closeTimers

\* RecvStatus that stops polling only when the timer is not set
MutRecvStatus(q) ==
    /\ q.st \in {"pending", "paid"}
    /\ payReqs' = Take(payReqs, q)
    /\ data' = IF q.st = "paid" THEN PaidData ELSE PendingData
    /\ dataCode' = q.code
    /\ IF data'.success /\ ~timer THEN StopPolling ELSE UNCHANGED <<isPolling, timer, liveTimers>>
    /\ WatchSuccess
    /\ ev' = "payApplied"
    /\ UNCHANGED <<viewVars, payAlive, isOpen, code, error, rPaid, emits, payLeft>>

\* checkStatus after its await, with a result: it becomes data.value, and polling
\* stops when it says success
RecvStatus(q) ==
    /\ q.st \in {"pending", "paid"}
    /\ payReqs' = Take(payReqs, q)
    /\ data' = IF q.st = "paid" THEN PaidData ELSE PendingData
    /\ dataCode' = q.code
    /\ IF data'.success THEN StopPolling ELSE UNCHANGED <<isPolling, timer, liveTimers>>
    /\ WatchSuccess
    /\ ev' = "payApplied"
    /\ UNCHANGED <<viewVars, payAlive, isOpen, code, error, rPaid, emits, payLeft>>

\* checkStatus after its await, without a result and without an error: data.value
\* stays, and polling stops when it already says success
RecvStatusNone(q) ==
    /\ q.st = "wait"
    /\ payReqs' = Take(payReqs, q)
    /\ IF data.success THEN StopPolling ELSE UNCHANGED <<isPolling, timer, liveTimers>>
    /\ ev' = "payNone"
    /\ UNCHANGED <<viewVars, payAlive, isOpen, code, data, dataCode, error, rPaid, closeTimers, emits,
                   paidCount, payLeft>>

\* RecvStatusFault whose catch block also stops polling
MutRecvStatusFault(q) ==
    /\ q.st = "wait"
    /\ payReqs' = Take(payReqs, q)
    /\ error' = TRUE
    /\ StopPolling
    /\ ev' = "payFailed"
    /\ UNCHANGED <<viewVars, payAlive, isOpen, code, data, dataCode, rPaid, closeTimers, emits,
                   paidCount, payLeft>>

\* checkStatus after its await, with an error: the catch block sets error.value
RecvStatusFault(q) ==
    /\ q.st = "wait"
    /\ payReqs' = Take(payReqs, q)
    /\ error' = TRUE
    /\ ev' = "payFailed"
    /\ UNCHANGED <<viewVars, payAlive, isOpen, code, data, dataCode, isPolling, timer, liveTimers, rPaid,
                   closeTimers, emits, paidCount, payLeft>>

\* a transfer completes the payment of code c
OtherPays(c) ==
    /\ c \notin rPaid
    /\ rPaid' = rPaid \cup {c}
    /\ ev' = "step"
    /\ UNCHANGED <<viewVars, payAlive, isOpen, code, data, dataCode, isPolling, timer, liveTimers, error,
                   payReqs, closeTimers, emits, paidCount, payLeft>>

\* ---------------------------------------------------------------- PaymentQRModal
\* WatchOpenCode that starts polling whenever the dialog is open
MutWatchOpenCode(o, c) ==
    IF o
    THEN /\ ~isPolling
         /\ isPolling' = TRUE
         /\ timer' = TRUE
         /\ liveTimers' = liveTimers + 1
         /\ UNCHANGED <<payReqs, payLeft>>
    ELSE StopPolling /\ UNCHANGED <<payReqs, payLeft>>

\* watch([effectiveIsOpen, effectiveCode]) with { immediate: true }, on the values o, c
WatchOpenCode(o, c) ==
    IF o
    THEN IF c # "" THEN StartPolling(c)
         ELSE UNCHANGED <<isPolling, timer, liveTimers, payReqs, payLeft>>
    ELSE StopPolling /\ UNCHANGED <<payReqs, payLeft>>

\* the host changes the props (openPaymentQR, @close, another snapshot selected):
\* the watcher runs once, on the new values, before anything else does
SetProps(o, c) ==
    /\ payAlive
    /\ <<o, c>> # <<isOpen, code>>
    /\ isOpen' = o
    /\ code' = c
    /\ WatchOpenCode(o, c)
    /\ ev' = IF ~isPolling /\ isPolling' THEN "payStart" ELSE "props"
    /\ UNCHANGED <<viewVars, payAlive, data, dataCode, error, rPaid, closeTimers, emits, paidCount>>

\* the timeout of the success watcher: emit('success'), emit('payment-complete'),
\* emit('close').  A component that is unmounted emits nothing; the host answers
\* 'close' with showQRModal = false, which the watcher of the props sees.
FireClose ==
    /\ closeTimers > 0
    /\ closeTimers' = closeTimers - 1
    /\ emits' = IF payAlive THEN emits + 1 ELSE emits
    /\ isOpen' = IF payAlive THEN FALSE ELSE isOpen
    /\ IF payAlive /\ isOpen THEN StopPolling ELSE UNCHANGED <<isPolling, timer, liveTimers>>
    /\ ev' = "closeFired"
    /\ UNCHANGED <<viewVars, payAlive, code, data, dataCode, error, payReqs, rPaid, paidCount, payLeft>>

\* the dialog is set up with the host: show is false and there is no snapshot, so
\* the immediate run of the watcher calls stopPolling() on a poller that is idle
PayMount ==
    /\ payAlive' = TRUE
    /\ UNCHANGED <<isOpen, code, data, dataCode, isPolling, timer, liveTimers, error, payReqs, rPaid,
                   closeTimers, emits, paidCount, payLeft>>

\* PayUnmount without the poller's onUnmounted hook
MutPayUnmount ==
    /\ payAlive' = FALSE
    /\ UNCHANGED <<isOpen, code, data, dataCode, isPolling, timer, liveTimers, error, payReqs, rPaid,
                   closeTimers, emits, paidCount, payLeft>>

\* the dialog goes with its host: onUnmounted of usePaymentPolling calls
\* stopPolling(), and the watchers of the component stop
PayUnmount ==
    /\ payAlive' = FALSE
    /\ StopPolling
    /\ UNCHANGED <<isOpen, code, data, dataCode, error, payReqs, rPaid, closeTimers, emits, paidCount,
                   payLeft>>

\* ---------------------------------------------------------------- fetchCosts, invocation
\* fetchCosts() is called and the rpc is issued.  A call made by the continuation
\* that confirms a write (byConfirm) is the only one invoked no earlier than that
\* confirmation; every call already in flight is older.
InvokeCosts(byConfirm) ==
    /\ BagCardinality(costReqs) < MaxCosts
    /\ costReqs' = Put(IF byConfirm THEN OlderAll(costReqs) ELSE costReqs, [fresh |-> TRUE])
    /\ costsFresh' = IF byConfirm THEN FALSE ELSE costsFresh

\* startPolling of the view without its test of pollTimer
MutViewStartPolling ==
    /\ pollTimer' = TRUE
    /\ viewTimers' = viewTimers + 1

\* startPolling of the view: if (pollTimer) return; pollTimer = setInterval(...)
ViewStartPolling ==
    IF pollTimer
    THEN UNCHANGED <<pollTimer, viewTimers>>
    ELSE /\ pollTimer' = TRUE
         /\ viewTimers' = viewTimers + 1

\* stopPolling of the view: clearInterval(pollTimer) and pollTimer = null when set
ViewStopPolling ==
    IF pollTimer
    THEN /\ pollTimer' = FALSE
         /\ viewTimers' = viewTimers - 1
    ELSE UNCHANGED <<pollTimer, viewTimers>>

\* ---------------------------------------------------------------- fetchData
\* fetchData(refreshCostsOnly) up to its first await: the session read is issued
StartFetch(full) ==
    /\ BagCardinality(syncs) < MaxSyncs
    /\ syncs' = Put(syncs, Waiting(IF full THEN "sessFull" ELSE "sessLight"))

onMounted ==
    /\ phase = "setup"
    /\ phase' = "mounted"
    /\ StartFetch(TRUE)
    /\ realtimeChannel' = TRUE
    /\ ViewStartPolling
    /\ PayMount
    /\ ev' = "step"
    /\ UNCHANGED <<otherVars, remoteVars, auth, listVars, costs, writes, costReqs, budget, ghostVars>>

\* the refresh button: @click="() => fetchData()"
Refresh ==
    /\ phase = "mounted"
    /\ budget.starts > 0
    /\ StartFetch(TRUE)
    /\ budget' = Spend("starts")
    /\ ev' = "step"
    /\ UNCHANGED <<payVars, otherVars, remoteVars, lifeVars, listVars, costs, writes, costReqs, ghostVars>>

\* the setInterval callback of startPolling
PollTick ==
    /\ pollTimer
    /\ budget.starts > 0
    /\ StartFetch(FALSE)
    /\ budget' = Spend("starts")
    /\ ev' = "pollTick"
    /\ UNCHANGED <<payVars, otherVars, remoteVars, lifeVars, listVars, costs, writes, costReqs, ghostVars>>

\* Notification whose callback calls fetchData()
MutNotification ==
    /\ realtimeChannel
    /\ budget.starts > 0
    /\ StartFetch(TRUE)
    /\ budget' = Spend("starts")
    /\ ev' = "notification"
    /\ UNCHANGED <<payVars, otherVars, remoteVars, lifeVars, listVars, costs, writes, costReqs, ghostVars>>

\* a postgres_changes callback of the channel (interval_presence, session_registrations)
Notification ==
    /\ realtimeChannel
    /\ budget.starts > 0
    /\ StartFetch(FALSE)
    /\ budget' = Spend("starts")
    /\ ev' = "notification"
    /\ UNCHANGED <<payVars, otherVars, remoteVars, lifeVars, listVars, costs, writes, costReqs, ghostVars>>

\* the session read returns an error: it is thrown to the catch block, which ends the call
RecvSessionFault(r) ==
    /\ r.pc \in {"sessFull", "sessLight"}
    /\ budget.faults > 0
    /\ syncs' = Take(syncs, r)
    /\ budget' = Spend("faults")
    /\ ev' = "step"
    /\ UNCHANGED <<payVars, otherVars, remoteVars, lifeVars, listVars, costs, writes, costReqs, ghostVars>>

\* RecvSession without the test of refreshCostsOnly
MutRecvSession(r) ==
    /\ r.pc \in {"sessFull", "sessLight"}
    /\ session' = rStatus
    /\ sessionForm' = "stored"
    /\ syncs' = Swap(syncs, r, Waiting("ivals"))
    /\ ev' = "step"
    /\ UNCHANGED <<payVars, otherVars, remoteVars, lifeVars, intervals, allMembers, isEditingSession, registrations, presence,
                   costs, writes, costReqs, budget, ghostVars>>

\* the session read returns data; the next read is issued (intervals when full)
RecvSession(r) ==
    /\ r.pc \in {"sessFull", "sessLight"}
    /\ session' = rStatus
    /\ sessionForm' = "stored"
    /\ syncs' = Swap(syncs, r, Waiting(IF r.pc = "sessFull" THEN "ivals" ELSE "regs"))
    /\ ev' = "step"
    /\ UNCHANGED <<payVars, otherVars, remoteVars, lifeVars, intervals, allMembers, isEditingSession, registrations, presence, costs, writes,
                   costReqs, budget, ghostVars>>

\* the intervals read returns: intervals.value = intervalsData || [], then the
\* members read is issued
RecvIntervals(r, ok) ==
    /\ r.pc = "ivals"
    /\ ok \/ budget.faults > 0
    /\ intervals' = IF ok THEN Intervals ELSE {}
    /\ syncs' = Swap(syncs, r, Waiting("members"))
    /\ budget' = IF ok THEN budget ELSE Spend("faults")
    /\ ev' = "step"
    /\ UNCHANGED <<payVars, otherVars, remoteVars, lifeVars, session, allMembers, formVars, registrations, presence,
                   costs, writes, costReqs, ghostVars>>

\* the members read returns: allMembers.value = membersData || [], then the
\* registrations read is issued
RecvMembers(r, ok) ==
    /\ r.pc = "members"
    /\ ok \/ budget.faults > 0
    /\ allMembers' = IF ok THEN Members ELSE {}
    /\ syncs' = Swap(syncs, r, Waiting("regs"))
    /\ budget' = IF ok THEN budget ELSE Spend("faults")
    /\ ev' = "step"
    /\ UNCHANGED <<payVars, otherVars, remoteVars, lifeVars, session, intervals, formVars, registrations, presence,
                   costs, writes, costReqs, ghostVars>>

\* the store answers the registrations read
ServeRegs(r, ok) ==
    /\ r.pc = "regs" /\ r.st = "wait"
    /\ ok \/ budget.faults > 0
    /\ syncs' = Swap(syncs, r, IF ok THEN Sync("regs", "ok", rRegs, EmptyFn, {})
                                     ELSE Sync("regs", "err", EmptyFn, EmptyFn, {}))
    /\ budget' = IF ok THEN budget ELSE Spend("faults")
    /\ ev' = "step"
    /\ UNCHANGED <<payVars, otherVars, remoteVars, lifeVars, listVars, costs, writes, costReqs, ghostVars>>

\* RecvRegs whose presence read asks for every interval of the session
MutRecvRegs(r) ==
    /\ r.pc = "regs" /\ r.st # "wait"
    /\ registrations' = r.regs
    /\ writes' = DetachAll(writes)
    /\ syncs' = Swap(syncs, r, Sync("pres", "wait", r.regs, EmptyFn, Intervals))
    /\ dirty' = (dirty \/ registrations' # registrations)
    /\ ev' = "step"
    /\ UNCHANGED <<payVars, otherVars, remoteVars, lifeVars, session, intervals, allMembers, formVars, presence, costs, costReqs,
                   budget, costsFresh>>

\* registrations.value = regsData || [], then the presence read is issued for the
\* ids of intervals.value.  The objects of the old list are no longer in the list.
RecvRegs(r) ==
    /\ r.pc = "regs" /\ r.st # "wait"
    /\ registrations' = r.regs
    /\ writes' = DetachAll(writes)
    /\ syncs' = Swap(syncs, r, Sync("pres", "wait", r.regs, EmptyFn, intervals))
    /\ dirty' = (dirty \/ registrations' # registrations)
    /\ ev' = "step"
    /\ UNCHANGED <<payVars, otherVars, remoteVars, lifeVars, session, intervals, allMembers, formVars, presence, costs, costReqs,
                   budget, costsFresh>>

\* the store answers the presence read: .in('interval_id', ids)
ServePres(r, ok) ==
    /\ r.pc = "pres" /\ r.st = "wait"
    /\ ok \/ budget.faults > 0
    /\ syncs' = Swap(syncs, r,
                     IF ok
                     THEN [Sync("pres", "ok", r.regs,
                                [c \in {d \in DOMAIN rPres : d[2] \in r.filter} |-> rPres[c]], {})
                           EXCEPT !.held = rPres]
                     ELSE Sync("pres", "err", r.regs, EmptyFn, {}))
    /\ budget' = IF ok THEN budget ELSE Spend("faults")
    /\ ev' = "step"
    /\ UNCHANGED <<payVars, otherVars, remoteVars, lifeVars, listVars, costs, writes, costReqs, ghostVars>>

\* RecvPres with a fold that keeps the tentative value of a cell whose write is in flight
MutRecvPres(r) ==
    /\ r.pc = "pres" /\ r.st # "wait"
    /\ presence' = [m \in DOMAIN registrations |->
                      [i \in DOMAIN FoldMatrix(registrations, intervals, r.rows)[m] |->
                          IF \E w \in BagToSet(writes) :
                                w.kind = "pres" /\ w.m = m /\ w.i = i /\ w.st = "sent"
                          THEN CellVal(m, i)
                          ELSE FoldMatrix(registrations, intervals, r.rows)[m][i]]]
    /\ IF session = "closed"
       THEN /\ syncs' = Swap(syncs, r, Waiting("snap"))
            /\ dirty' = (dirty \/ presence' # presence)
            /\ UNCHANGED <<payVars, otherVars, costReqs, costsFresh>>
       ELSE /\ InvokeCosts(FALSE)
            /\ syncs' = Take(syncs, r)
            /\ dirty' = FALSE
    /\ ev' = "fold"
    /\ UNCHANGED <<payVars, otherVars, remoteVars, lifeVars, session, intervals, allMembers, formVars, registrations, costs, writes,
                   budget>>

\* the fold: the matrix is built and assigned; then fetchSnapshotData is awaited
\* when the session is closed, else fetchCosts is called
RecvPres(r) ==
    /\ r.pc = "pres" /\ r.st # "wait"
    /\ presence' = FoldMatrix(registrations, intervals, r.rows)
    /\ IF session = "closed"
       THEN /\ syncs' = Swap(syncs, r, Waiting("snap"))
            /\ dirty' = (dirty \/ presence' # presence)
            /\ UNCHANGED <<payVars, otherVars, costReqs, costsFresh>>
       ELSE /\ InvokeCosts(FALSE)
            /\ syncs' = Take(syncs, r)
            /\ dirty' = FALSE
    /\ ev' = "fold"
    /\ UNCHANGED <<payVars, otherVars, remoteVars, lifeVars, session, intervals, allMembers, formVars, registrations, costs, writes,
                   budget>>

\* fetchSnapshotData returned; fetchCosts is called
RecvSnapshot(r) ==
    /\ r.pc = "snap"
    /\ InvokeCosts(FALSE)
    /\ syncs' = Take(syncs, r)
    /\ dirty' = FALSE
    /\ ev' = "snapshot"
    /\ UNCHANGED <<payVars, otherVars, remoteVars, lifeVars, listVars, costs, writes, budget>>

\* ---------------------------------------------------------------- fetchCosts
\* the rpc returns data computed from the store's facts: costs.value = sortedCosts
RecvCosts(c) ==
    /\ costs' = CalcCosts(rRegs, rPres)
    /\ costsFresh' = c.fresh
    /\ costReqs' = Take(costReqs, c)
    /\ ev' = "costsApplied"
    /\ UNCHANGED <<payVars, otherVars, remoteVars, lifeVars, listVars, syncs, writes, budget, dirty>>

\* RecvCostsFault that empties the cache
MutRecvCostsFault(c) ==
    /\ budget.faults > 0
    /\ costs' = EmptyFn
    /\ costReqs' = Take(costReqs, c)
    /\ budget' = Spend("faults")
    /\ ev' = "costsFailed"
    /\ UNCHANGED <<payVars, otherVars, remoteVars, lifeVars, listVars, syncs, writes, ghostVars>>

\* the rpc returns an error or no data: if (!error && data) is false
RecvCostsFault(c) ==
    /\ budget.faults > 0
    /\ costReqs' = Take(costReqs, c)
    /\ budget' = Spend("faults")
    /\ ev' = "costsFailed"
    /\ UNCHANGED <<payVars, otherVars, remoteVars, lifeVars, listVars, costs, syncs, writes, ghostVars>>

\* ---------------------------------------------------------------- togglePresence
\* CheckboxDisabled that leaves the row of a closed session enabled
MutCheckboxDisabled(m) ==
    session = "null" \/ ~auth \/ registrations[m]

\* the template: the table is rendered once session is set; the checkbox of a row is
\* disabled, and the absent button left out, as the template says
CheckboxDisabled(m) ==
    session = "null" \/ ~auth \/ registrations[m] \/ session = "closed"
AbsentButtonShown == session # "null" /\ auth /\ session # "closed"

\* togglePresence without the optimistic update
MutTogglePresence(m, i) ==
    /\ phase = "mounted"
    /\ m \in DOMAIN registrations /\ i \in intervals
    /\ ~CheckboxDisabled(m)
    /\ auth
    /\ m \in DOMAIN presence
    /\ budget.toggles > 0
    /\ BagCardinality(writes) < MaxWrites
    /\ writes' = Put(writes, [kind |-> "pres", m |-> m, i |-> i, val |-> ~CellVal(m, i),
                              prev |-> CellVal(m, i), st |-> "sent", detached |-> FALSE])
    /\ budget' = Spend("toggles")
    /\ dirty' = TRUE
    /\ ev' = "togglePresence"
    /\ UNCHANGED <<payVars, otherVars, remoteVars, lifeVars, listVars, costs, syncs, costReqs, costsFresh>>

\* the checkbox of a rendered row: the optimistic update and the upsert call
togglePresence(m, i) ==
    /\ phase = "mounted"
    /\ m \in DOMAIN registrations /\ i \in intervals
    /\ ~CheckboxDisabled(m)
    /\ auth
    /\ m \in DOMAIN presence
    /\ budget.toggles > 0
    /\ BagCardinality(writes) < MaxWrites
    /\ LET newValue == ~CellVal(m, i) IN
        /\ presence' = [presence EXCEPT ![m] = SetKey(@, i, newValue)]
        /\ writes' = Put(writes, [kind |-> "pres", m |-> m, i |-> i, val |-> newValue,
                                  prev |-> CellVal(m, i), st |-> "sent", detached |-> FALSE])
    /\ budget' = Spend("toggles")
    /\ dirty' = TRUE
    /\ ev' = "togglePresence"
    /\ UNCHANGED <<payVars, otherVars, remoteVars, lifeVars, session, intervals, allMembers, formVars, registrations, costs, syncs,
                   costReqs, costsFresh>>

\* toggleAbsent that tests authStore.isAuthenticated neither in the handler nor in
\* the template
MutToggleAbsent(m) ==
    /\ phase = "mounted"
    /\ m \in DOMAIN registrations
    /\ session # "null" /\ session # "closed"
    /\ budget.toggles > 0
    /\ BagCardinality(writes) < MaxWrites
    /\ LET newValue == ~registrations[m] IN
        /\ registrations' = [registrations EXCEPT ![m] = newValue]
        /\ writes' = Put(writes, [kind |-> "abs", m |-> m, i |-> "", val |-> newValue,
                                  prev |-> registrations[m], st |-> "sent", detached |-> FALSE])
    /\ budget' = Spend("toggles")
    /\ dirty' = TRUE
    /\ ev' = "toggleAbsent"
    /\ UNCHANGED <<payVars, otherVars, remoteVars, lifeVars, session, intervals, allMembers, formVars, presence, costs, syncs,
                   costReqs, costsFresh>>

\* the absent button of a rendered row: the optimistic update and the update call
toggleAbsent(m) ==
    /\ phase = "mounted"
    /\ m \in DOMAIN registrations
    /\ AbsentButtonShown
    /\ auth
    /\ budget.toggles > 0
    /\ BagCardinality(writes) < MaxWrites
    /\ LET newValue == ~registrations[m] IN
        /\ registrations' = [registrations EXCEPT ![m] = newValue]
        /\ writes' = Put(writes, [kind |-> "abs", m |-> m, i |-> "", val |-> newValue,
                                  prev |-> registrations[m], st |-> "sent", detached |-> FALSE])
    /\ budget' = Spend("toggles")
    /\ dirty' = TRUE
    /\ ev' = "toggleAbsent"
    /\ UNCHANGED <<payVars, otherVars, remoteVars, lifeVars, session, intervals, allMembers, formVars, presence, costs, syncs,
                   costReqs, costsFresh>>

\* ServeWrite whose upsert keeps the stored row on a conflict
MutServeWrite(w) ==
    /\ w.st = "sent"
    /\ rPres' = IF w.kind = "pres" /\ <<w.m, w.i>> \notin DOMAIN rPres
                THEN SetKey(rPres, <<w.m, w.i>>, w.val) ELSE rPres
    /\ rRegs' = IF w.kind = "abs" /\ w.m \in DOMAIN rRegs
                THEN [rRegs EXCEPT ![w.m] = w.val] ELSE rRegs
    /\ writes' = Swap(writes, w, [w EXCEPT !.st = "ok"])
    /\ dirty' = TRUE
    /\ ev' = "step"
    /\ UNCHANGED <<payVars, otherVars, rStatus, lifeVars, listVars, costs, syncs, costReqs, budget, costsFresh>>

\* the store applies the write: upsert on (interval_id, member_id), or update by id
ServeWrite(w) ==
    /\ w.st = "sent"
    /\ rPres' = IF w.kind = "pres" THEN SetKey(rPres, <<w.m, w.i>>, w.val) ELSE rPres
    /\ rRegs' = IF w.kind = "abs" /\ w.m \in DOMAIN rRegs
                THEN [rRegs EXCEPT ![w.m] = w.val] ELSE rRegs
    /\ writes' = Swap(writes, w, [w EXCEPT !.st = "ok"])
    /\ dirty' = TRUE
    /\ ev' = "step"
    /\ UNCHANGED <<payVars, otherVars, rStatus, lifeVars, listVars, costs, syncs, costReqs, budget, costsFresh>>

\* the store rejects the write
FailWrite(w) ==
    /\ w.st = "sent"
    /\ budget.faults > 0
    /\ writes' = Swap(writes, w, [w EXCEPT !.st = "err"])
    /\ budget' = Spend("faults")
    /\ ev' = "step"
    /\ UNCHANGED <<payVars, otherVars, remoteVars, lifeVars, listVars, costs, syncs, costReqs, ghostVars>>

\* RecvWriteOk that assigns the written value again
MutRecvWriteOkApply(w) ==
    /\ w.st = "ok"
    /\ InvokeCosts(TRUE)
    /\ presence' = IF w.kind = "pres" /\ w.m \in DOMAIN presence
                   THEN [presence EXCEPT ![w.m] = SetKey(@, w.i, w.val)]
                   ELSE presence
    /\ writes' = Take(writes, w)
    /\ dirty' = FALSE
    /\ ev' = "writeConfirmed"
    /\ UNCHANGED <<payVars, otherVars, remoteVars, lifeVars, session, intervals, allMembers, formVars, registrations, costs, syncs,
                   budget>>

\* RecvWriteOk without the call of fetchCosts
MutRecvWriteOk(w) ==
    /\ w.st = "ok"
    /\ writes' = Take(writes, w)
    /\ ev' = "writeConfirmed"
    /\ UNCHANGED <<payVars, otherVars, remoteVars, lifeVars, listVars, costs, syncs, costReqs, budget, ghostVars>>

\* the write returned without error: fetchCosts is called
RecvWriteOk(w) ==
    /\ w.st = "ok"
    /\ InvokeCosts(TRUE)
    /\ writes' = Take(writes, w)
    /\ dirty' = FALSE
    /\ ev' = "writeConfirmed"
    /\ UNCHANGED <<payVars, otherVars, remoteVars, lifeVars, listVars, costs, syncs, budget>>

\* the steps whose code shows a toast: the error branches of togglePresence and of
\* toggleAbsent call console.error only, as fetchData does, and fetchCosts is silent
ToastSteps == {}

\* RecvWriteErr that also clears the cost cache
MutRecvWriteErrClear(w) ==
    /\ w.st = "err"
    /\ presence' = IF w.kind = "pres" /\ w.m \in DOMAIN presence
                   THEN [presence EXCEPT ![w.m] = SetKey(@, w.i, ~w.val)]
                   ELSE presence
    /\ registrations' = IF w.kind = "abs" /\ ~w.detached
                        THEN [registrations EXCEPT ![w.m] = ~w.val]
                        ELSE registrations
    /\ writes' = Take(writes, w)
    /\ dirty' = (dirty \/ presence' # presence \/ registrations' # registrations)
    /\ costs' = EmptyFn
    /\ ev' = "writeReverted"
    /\ UNCHANGED <<payVars, otherVars, remoteVars, lifeVars, session, intervals, allMembers, formVars, syncs, costReqs,
                   budget, costsFresh>>

\* RecvWriteErr that reverts the absence flag by member id, in whatever list there is
MutRecvWriteErrByKey(w) ==
    /\ w.st = "err"
    /\ presence' = IF w.kind = "pres" /\ w.m \in DOMAIN presence
                   THEN [presence EXCEPT ![w.m] = SetKey(@, w.i, ~w.val)]
                   ELSE presence
    /\ registrations' = IF w.kind = "abs" /\ w.m \in DOMAIN registrations
                        THEN [registrations EXCEPT ![w.m] = ~w.val]
                        ELSE registrations
    /\ writes' = Take(writes, w)
    /\ dirty' = (dirty \/ presence' # presence \/ registrations' # registrations)
    /\ ev' = "writeReverted"
    /\ UNCHANGED <<payVars, otherVars, remoteVars, lifeVars, session, intervals, allMembers, formVars, costs, syncs, costReqs,
                   budget, costsFresh>>

\* RecvWriteErr that leaves the optimistic value in place
MutRecvWriteErr(w) ==
    /\ w.st = "err"
    /\ writes' = Take(writes, w)
    /\ ev' = "writeReverted"
    /\ UNCHANGED <<payVars, otherVars, remoteVars, lifeVars, listVars, costs, syncs, costReqs, budget, ghostVars>>

\* RecvWriteErr that calls fetchCosts after the revert
MutRecvWriteErrCosts(w) ==
    /\ w.st = "err"
    /\ presence' = IF w.kind = "pres" /\ w.m \in DOMAIN presence
                   THEN [presence EXCEPT ![w.m] = SetKey(@, w.i, ~w.val)]
                   ELSE presence
    /\ registrations' = IF w.kind = "abs" /\ ~w.detached
                        THEN [registrations EXCEPT ![w.m] = ~w.val]
                        ELSE registrations
    /\ InvokeCosts(FALSE)
    /\ writes' = Take(writes, w)
    /\ dirty' = FALSE
    /\ ev' = "writeReverted"
    /\ UNCHANGED <<payVars, otherVars, remoteVars, lifeVars, session, intervals, allMembers, formVars, costs, syncs, budget>>

\* the write returned an error: the revert
RecvWriteErr(w) ==
    /\ w.st = "err"
    /\ presence' = IF w.kind = "pres" /\ w.m \in DOMAIN presence
                   THEN [presence EXCEPT ![w.m] = SetKey(@, w.i, ~w.val)]
                   ELSE presence
    /\ registrations' = IF w.kind = "abs" /\ ~w.detached
                        THEN [registrations EXCEPT ![w.m] = ~w.val]
                        ELSE registrations
    /\ writes' = Take(writes, w)
    /\ dirty' = (dirty \/ presence' # presence \/ registrations' # registrations)
    /\ ev' = "writeReverted"
    /\ UNCHANGED <<payVars, otherVars, remoteVars, lifeVars, session, intervals, allMembers, formVars, costs, syncs, costReqs,
                   budget, costsFresh>>

\* ---------------------------------------------------------------- the other operators
\* another client upserts a presence row
OtherPresence(m, i, v) ==
    /\ budget.edits > 0
    /\ rPres' = SetKey(rPres, <<m, i>>, v)
    /\ budget' = Spend("edits")
    /\ dirty' = TRUE
    /\ ev' = "step"
    /\ UNCHANGED <<payVars, otherVars, rRegs, rStatus, lifeVars, listVars, costs, syncs, writes, costReqs,
                   costsFresh>>

\* another client registers a member, removes a registration or flips its absence flag
OtherRegistration(m) ==
    /\ budget.edits > 0
    /\ \/ m \notin DOMAIN rRegs /\ rRegs' = SetKey(rRegs, m, FALSE)
       \/ m \in DOMAIN rRegs /\ rRegs' = [x \in DOMAIN rRegs \ {m} |-> rRegs[x]]
       \/ m \in DOMAIN rRegs /\ rRegs' = [rRegs EXCEPT ![m] = ~@]
    /\ budget' = Spend("edits")
    /\ dirty' = TRUE
    /\ ev' = "step"
    /\ UNCHANGED <<payVars, otherVars, rPres, rStatus, lifeVars, listVars, costs, syncs, writes, costReqs,
                   costsFresh>>

\* the session is finalized (finalize_session), by this operator or another one
OtherClose ==
    /\ budget.edits > 0
    /\ rStatus = "active"
    /\ rStatus' = "closed"
    /\ budget' = Spend("edits")
    /\ ev' = "step"
    /\ UNCHANGED <<payVars, otherVars, rRegs, rPres, lifeVars, listVars, costs, syncs, writes, costReqs,
                   ghostVars>>

\* from here on the store changes no more (but for the writes still in flight), the
\* operator toggles no more, and reads succeed
Stabilize ==
    /\ ~stable
    /\ budget' = NoBudget
    /\ ev' = "step"
    /\ UNCHANGED <<payVars, otherVars, remoteVars, lifeVars, listVars, costs, syncs, writes, costReqs, ghostVars>>

\* StablePollTick whose callback does not call fetchData
MutStablePollTick ==
    /\ pollTimer
    /\ stable
    /\ ev' = "pollTick"
    /\ UNCHANGED <<payVars, otherVars, remoteVars, lifeVars, listVars, costs, syncs, writes, costReqs, budget,
                   ghostVars>>

\* the setInterval callback of startPolling, any number of times once the store is stable
StablePollTick ==
    /\ pollTimer
    /\ stable
    /\ StartFetch(FALSE)
    /\ ev' = "pollTick"
    /\ UNCHANGED <<payVars, otherVars, remoteVars, lifeVars, listVars, costs, writes, costReqs, budget, ghostVars>>

\* ---------------------------------------------------------------- teardown
\* stopPolling() and supabase.removeChannel(realtimeChannel); the payment dialog, a
\* child of the view, is unmounted in the same run
onUnmounted ==
    /\ phase = "mounted"
    /\ phase' = "unmounted"
    /\ ViewStopPolling
    /\ realtimeChannel' = FALSE
    /\ PayUnmount
    /\ ev' = "step"
    /\ UNCHANGED <<otherVars, remoteVars, auth, listVars, costs, syncs, writes, costReqs, budget,
                   ghostVars>>

\* ---------------------------------------------------------------- specification
Next ==
    \/ onMounted
    \/ Refresh
    \/ PollTick
    \/ Notification
    \/ \E r \in BagToSet(syncs) : RecvSessionFault(r)
    \/ \E r \in BagToSet(syncs) : RecvSession(r)
    \/ \E r \in BagToSet(syncs), ok \in BOOLEAN : RecvIntervals(r, ok)
    \/ \E r \in BagToSet(syncs), ok \in BOOLEAN : RecvMembers(r, ok)
    \/ \E r \in BagToSet(syncs), ok \in BOOLEAN : ServeRegs(r, ok)
    \/ \E r \in BagToSet(syncs) : RecvRegs(r)
    \/ \E r \in BagToSet(syncs), ok \in BOOLEAN : ServePres(r, ok)
    \/ \E r \in BagToSet(syncs) : RecvPres(r)
    \/ \E r \in BagToSet(syncs) : RecvSnapshot(r)
    \/ \E c \in BagToSet(costReqs) : RecvCosts(c)
    \/ \E c \in BagToSet(costReqs) : RecvCostsFault(c)
    \/ \E m \in Members, i \in Intervals : togglePresence(m, i)
    \/ \E m \in Members : toggleAbsent(m)
    \/ \E w \in BagToSet(writes) : ServeWrite(w)
    \/ \E w \in BagToSet(writes) : FailWrite(w)
    \/ \E w \in BagToSet(writes) : RecvWriteOk(w)
    \/ \E w \in BagToSet(writes) : RecvWriteErr(w)
    \/ \E m \in Members, i \in Intervals, v \in BOOLEAN : OtherPresence(m, i, v)
    \/ \E m \in Members : OtherRegistration(m)
    \/ onUnmounted

Spec == Init /\ [][Next]_vars

\* The run of the convergence claim: at some point the store becomes stable, and
\* from then on the timer keeps ticking.  Timer ticks fire and responses arrive:
\* the event loop runs every callback that is due.
LiveInit ==
    /\ PayIdle
    /\ OtherIdle
    /\ payAlive = FALSE
    /\ payLeft = 0
    /\ rRegs \in {EmptyFn, [m \in {"m1"} |-> FALSE]}
    /\ rPres = EmptyFn
    /\ rStatus \in {"active", "closed"}
    /\ phase = "setup"
    /\ auth = TRUE
    /\ session = "null"
    /\ intervals = {}
    /\ allMembers = {}
    /\ isEditingSession = FALSE
    /\ sessionForm = ""
    /\ registrations = EmptyFn
    /\ presence = EmptyFn
    /\ costs = EmptyFn
    /\ pollTimer = FALSE
    /\ viewTimers = 0
    /\ realtimeChannel = FALSE
    /\ syncs = EmptyBag
    /\ writes = EmptyBag
    /\ costReqs = EmptyBag
    /\ budget = [toggles |-> LiveMax, edits |-> LiveMax, starts |-> LiveMax, faults |-> LiveMax]
    /\ ev = "init"
    /\ costsFresh = TRUE
    /\ dirty = TRUE

SyncStep ==
    \E r \in BagToSet(syncs) :
        \/ RecvSession(r) \/ RecvIntervals(r, TRUE) \/ RecvMembers(r, TRUE)
        \/ ServeRegs(r, TRUE) \/ RecvRegs(r)
        \/ ServePres(r, TRUE) \/ RecvPres(r) \/ RecvSnapshot(r)
SyncFault ==
    \E r \in BagToSet(syncs) :
        \/ RecvSessionFault(r) \/ RecvIntervals(r, FALSE) \/ RecvMembers(r, FALSE)
        \/ ServeRegs(r, FALSE)
        \/ ServePres(r, FALSE)
CostStep == \E c \in BagToSet(costReqs) : RecvCosts(c)
WriteStep == \E w \in BagToSet(writes) : ServeWrite(w) \/ RecvWriteOk(w) \/ RecvWriteErr(w)

\* the view stays mounted and every notification of the channel is dropped
LiveNext ==
    \/ onMounted
    \/ Refresh
    \/ PollTick
    \/ SyncFault
    \/ SyncStep
    \/ CostStep
    \/ \E c \in BagToSet(costReqs) : RecvCostsFault(c)
    \/ \E m \in Members, i \in Intervals : togglePresence(m, i)
    \/ \E m \in Members : toggleAbsent(m)
    \/ WriteStep
    \/ \E w \in BagToSet(writes) : FailWrite(w)
    \/ \E m \in Members, i \in Intervals, v \in BOOLEAN : OtherPresence(m, i, v)
    \/ \E m \in Members : OtherRegistration(m)
    \/ Stabilize
    \/ StablePollTick

LiveSpec ==
    /\ LiveInit /\ [][LiveNext]_vars
    /\ WF_vars(StablePollTick)
    /\ WF_vars(SyncStep)
    /\ WF_vars(CostStep)
    /\ WF_vars(WriteStep)

\* The runs of the teardown claim: a finalized session that nobody edits; the view
\* is mounted, polls, is notified and is unmounted, while the operator opens and
\* closes the payment dialog on one payment code.
TeardownInit ==
    /\ PayIdle
    /\ OtherIdle
    /\ payAlive = FALSE
    /\ payLeft = TeardownMax
    /\ rRegs = EmptyFn
    /\ rPres = EmptyFn
    /\ rStatus = "closed"
    /\ phase = "setup"
    /\ auth = FALSE
    /\ session = "null"
    /\ intervals = {}
    /\ allMembers = {}
    /\ isEditingSession = FALSE
    /\ sessionForm = ""
    /\ registrations = EmptyFn
    /\ presence = EmptyFn
    /\ costs = EmptyFn
    /\ pollTimer = FALSE
    /\ viewTimers = 0
    /\ realtimeChannel = FALSE
    /\ syncs = EmptyBag
    /\ writes = EmptyBag
    /\ costReqs = EmptyBag
    /\ budget = [toggles |-> 0, edits |-> 0, starts |-> MaxStarts, faults |-> 0]
    /\ ev = "init"
    /\ costsFresh = TRUE
    /\ dirty = TRUE

StatusStep ==
    \E q \in BagToSet(payReqs) :
        ServeStatus(q) \/ RecvStatus(q) \/ RecvStatusNone(q) \/ RecvStatusFault(q)

TeardownNext ==
    \/ onMounted
    \/ PollTick
    \/ Notification
    \/ SyncStep
    \/ CostStep
    \/ onUnmounted
    \/ \E o \in BOOLEAN, c \in {"", "c1"} : SetProps(o, c)
    \/ PayTick
    \/ StatusStep
    \/ OtherPays("c1")
    \/ FireClose

TeardownSpec == TeardownInit /\ [][TeardownNext]_vars

\* The view once its first load of a finalized session is complete (a state that
\* TeardownSpec reaches), with no resync to come
ViewLoaded ==
    /\ rRegs = EmptyFn
    /\ rPres = EmptyFn
    /\ rStatus = "closed"
    /\ phase = "mounted"
    /\ auth = FALSE
    /\ session = "closed"
    /\ intervals = Intervals
    /\ allMembers = Members
    /\ isEditingSession = FALSE
    /\ sessionForm = "stored"
    /\ registrations = EmptyFn
    /\ presence = EmptyFn
    /\ costs = EmptyFn
    /\ pollTimer = TRUE
    /\ viewTimers = 1
    /\ realtimeChannel = TRUE
    /\ syncs = EmptyBag
    /\ writes = EmptyBag
    /\ costReqs = EmptyBag
    /\ budget = NoBudget
    /\ costsFresh = TRUE
    /\ dirty = FALSE

\* The runs of the payment dialog: the view has loaded, and the operator opens and
\* closes the dialog on the snapshots' payment codes until the view is unmounted.
PayInit ==
    /\ ViewLoaded
    /\ PayIdle
    /\ OtherIdle
    /\ payAlive = TRUE
    /\ payLeft = MaxStatusReqs
    /\ ev = "init"

PayNext ==
    \/ \E o \in BOOLEAN, c \in Codes \cup {""} : SetProps(o, c)
    \/ PayTick
    \/ \E q \in BagToSet(payReqs) : ServeStatus(q)
    \/ \E q \in BagToSet(payReqs) : RecvStatus(q)
    \/ \E q \in BagToSet(payReqs) : RecvStatusNone(q)
    \/ \E q \in BagToSet(payReqs) : RecvStatusFault(q)
    \/ \E c \in Codes : OtherPays(c)
    \/ FireClose
    \/ onUnmounted

PaySpec == PayInit /\ [][PayNext]_vars


\* The runs in which the session is finalized while the view is open: an operator
\* who is signed in, one registered member, and the same budgets as Spec.
CloseInit ==
    /\ PayIdle
    /\ OtherIdle
    /\ payAlive = FALSE
    /\ payLeft = 0
    /\ rRegs = [m \in {"m1"} |-> FALSE]
    /\ rPres = EmptyFn
    /\ rStatus = "active"
    /\ phase = "setup"
    /\ auth = TRUE
    /\ session = "null"
    /\ intervals = {}
    /\ allMembers = {}
    /\ isEditingSession = FALSE
    /\ sessionForm = ""
    /\ registrations = EmptyFn
    /\ presence = EmptyFn
    /\ costs = EmptyFn
    /\ pollTimer = FALSE
    /\ viewTimers = 0
    /\ realtimeChannel = FALSE
    /\ syncs = EmptyBag
    /\ writes = EmptyBag
    /\ costReqs = EmptyBag
    /\ budget = [toggles |-> MaxToggles, edits |-> MaxEdits, starts |-> MaxStarts,
                 faults |-> MaxFaults]
    /\ ev = "init"
    /\ costsFresh = TRUE
    /\ dirty = TRUE

CloseNext ==
    \/ onMounted
    \/ Refresh
    \/ PollTick
    \/ Notification
    \/ SyncFault
    \/ SyncStep
    \/ CostStep
    \/ \E c \in BagToSet(costReqs) : RecvCostsFault(c)
    \/ \E m \in Members, i \in Intervals : togglePresence(m, i)
    \/ \E m \in Members : toggleAbsent(m)
    \/ WriteStep
    \/ \E w \in BagToSet(writes) : FailWrite(w)
    \/ OtherClose
    \/ onUnmounted

CloseSpec == CloseInit /\ [][CloseNext]_vars


\* ================================================================ properties
\* the calls in flight, counted
NumCosts == BagCardinality(costReqs)
NumAt(pc) == BagCardinality([r \in {x \in BagToSet(syncs) : x.pc = pc} |-> syncs[r]])
OutstandingOn(m, i) ==
    BagCardinality([w \in {x \in BagToSet(writes) : x.kind = "pres" /\ x.m = m /\ x.i = i}
                      |-> writes[w]])

\* the fetchData activation that folds in this step, the write that returns in it
Folds(r) ==
    /\ r \in BagToSet(syncs) /\ r.pc = "pres" /\ r.st # "wait"
    /\ ev' = "fold"
    /\ syncs' \in {Take(syncs, r), Swap(syncs, r, Waiting("snap"))}
Returns(w) ==
    /\ w \in BagToSet(writes) /\ w.st \in {"ok", "err"}
    /\ ev' \in {"writeConfirmed", "writeReverted"}
    /\ writes' = Take(writes, w)

\* every local presence cell and every local absence flag equals the store's value
Converged ==
    /\ \A m \in DOMAIN presence : \A i \in DOMAIN presence[m] : presence[m][i] = RemoteVal(m, i)
    /\ \A m \in DOMAIN registrations : m \in DOMAIN rRegs /\ registrations[m] = rRegs[m]

\* C1: if from some point on the view stays mounted and the store is stable (no
\* edits, no toggles, reads succeed), then from some point on every local cell and
\* flag equals the store's value, with no notification delivered after that point
C1_Convergence ==
    <>[](stable /\ phase = "mounted") => <>[]Converged

C1_Witness ==
    /\ stable /\ phase = "mounted"
    /\ Converged
    /\ BagToSet(writes) = {}
    /\ \E m \in DOMAIN presence : \E i \in DOMAIN presence[m] : presence[m][i]
    /\ budget = NoBudget

\* C2: at every moment at most one remote write is outstanding per presence cell
C2_OneWritePerCell ==
    \A m \in Members, i \in Intervals : OutstandingOn(m, i) <= 1

\* C3: a togglePresence step leaves the negated value in the local cell, with its
\* upsert issued and not yet served: the cell read right after the toggle, before
\* the write resolves, is the new value
C3_Optimism ==
    [][\A m \in Members, i \in Intervals :
          (ev' = "togglePresence" /\ OutstandingOn(m, i)' = OutstandingOn(m, i) + 1)
          => /\ CellVal(m, i)' = ~CellVal(m, i)
             /\ \E w \in BagToSet(writes') :
                   /\ w.kind = "pres" /\ w.m = m /\ w.i = i /\ w.st = "sent"
                   /\ w.val = CellVal(m, i)'
                   /\ writes' = Put(writes, w)]_vars

C3_Witness ==
    /\ ev = "togglePresence"
    /\ \E w \in BagToSet(writes) :
          w.kind = "pres" /\ w.st = "sent" /\ w.val /\ CellVal(w.m, w.i)

\* C4: the step that handles a failed upsert leaves in the cell, when the member
\* still has a row in the matrix, the value the cell had just before that toggle
C4_Rollback ==
    [][\A w \in BagToSet(writes) :
          (Returns(w) /\ w.st = "err" /\ w.kind = "pres" /\ w.m \in DOMAIN presence')
          => /\ w.i \in DOMAIN presence'[w.m]
             /\ presence'[w.m][w.i] = w.prev]_vars

C4_Witness ==
    /\ ev = "writeReverted"
    /\ "m1" \in DOMAIN presence /\ "i1" \in DOMAIN presence["m1"]
    /\ BagToSet(writes) = {}

\* C5: right after a fold every cell of the matrix is the value of the row the
\* fold was given (false without a row), whatever a toggle in flight had put there
C5_MergeWins ==
    [][\A r \in BagToSet(syncs) :
          Folds(r) =>
            \A m \in DOMAIN presence' : \A i \in DOMAIN presence'[m] :
                presence'[m][i] = (<<m, i>> \in DOMAIN r.rows /\ r.rows[<<m, i>>])]_vars

C5_Witness ==
    /\ ev = "fold"
    /\ \E w \in BagToSet(writes) :
          /\ w.kind = "pres" /\ w.st = "sent"
          /\ w.m \in DOMAIN presence /\ w.i \in DOMAIN presence[w.m]
          /\ presence[w.m][w.i] # w.val

\* C6: right after a fold the matrix has a boolean cell for every registration and
\* every interval of the local lists, false where the fold was given no row
C6_DefaultFill ==
    [][\A r \in BagToSet(syncs) :
          Folds(r) =>
            \A m \in DOMAIN registrations' : \A i \in intervals' :
                /\ m \in DOMAIN presence'
                /\ i \in DOMAIN presence'[m]
                /\ presence'[m][i] \in BOOLEAN
                /\ <<m, i>> \notin DOMAIN r.rows => presence'[m][i] = FALSE]_vars

C6_Witness ==
    /\ ev = "fold"
    /\ rPres = EmptyFn
    /\ DOMAIN registrations = Members /\ intervals = Intervals
    /\ \A m \in Members : \A i \in Intervals : presence[m][i] = FALSE

\* C7: a result put into the cost cache comes from a fetchCosts call invoked no
\* earlier than the last confirmed mutation (no older result is shown after the
\* confirmation, none replaces a newer one)
C7_DerivationFreshness ==
    [][ev' = "costsApplied" => costsFresh']_vars

\* C8: the step that confirms a presence or absence write calls fetchCosts; the
\* fold calls it, or awaits the snapshot read of a closed session, whose return
\* calls it
C8_RecomputeInvoked ==
    [][/\ ev' = "writeConfirmed" => NumCosts' = NumCosts + 1
       /\ ev' = "fold" => \/ NumCosts' = NumCosts + 1 /\ NumAt("snap")' = NumAt("snap")
                          \/ NumAt("snap")' = NumAt("snap") + 1
       /\ NumAt("snap")' < NumAt("snap") => NumCosts' = NumCosts + 1]_vars

C8_Witness ==
    /\ ev = "writeConfirmed"
    /\ [fresh |-> TRUE] \in BagToSet(costReqs)
    /\ \E m \in DOMAIN registrations : registrations[m]

\* C9, as stated: fetchCosts is called only when a cell or a registration has
\* changed since it was last called (the confirmation of a write counted as a change)
C9_OnlyWhenChanged ==
    [][NumCosts' > NumCosts
          => \/ dirty \/ presence' # presence \/ registrations' # registrations
             \/ ev' = "writeConfirmed"]_vars

\* C9, amended: fetchCosts is called only by the step that confirms a write, by a
\* fold and by the return of the snapshot read after a fold, changed facts or not
C9_OnlyAfterConfirmOrFold ==
    [][NumCosts' > NumCosts => ev' \in {"writeConfirmed", "fold", "snapshot"}]_vars

C9_Witness ==
    /\ ev = "fold"
    /\ NumCosts > 0
    /\ ~dirty
    /\ budget.starts < MaxStarts

\* C10: a fetchCosts call that fails or returns no data leaves costs.value as it was
C10_FaultKeepsCache ==
    [][ev' = "costsFailed" => costs' = costs]_vars

C10_Witness ==
    /\ ev = "costsFailed"
    /\ costs # EmptyFn

\* ---------------------------------------------------------------- C11
\* C11: once the view's unmount routine and the payment poller's have run, no
\* polling-fallback timer and no payment-status timer of the view is registered
\* and its channel is removed, so that no tick fires (PollTick, PayTick) and no
\* notification callback runs (Notification) again, whatever calls are in flight.
C11_Teardown ==
    phase = "unmounted" => ~pollTimer /\ liveTimers = 0 /\ ~timer /\ ~isPolling /\ ~realtimeChannel

\* the view is unmounted with the dialog open on a code that is not paid, a status
\* request and a resync still in flight
C11_Witness ==
    /\ phase = "unmounted"
    /\ isOpen /\ code # "" /\ ~data.success
    /\ BagCardinality(payReqs) > 0
    /\ BagCardinality(syncs) > 0

\* ---------------------------------------------------------------- C12
\* C12: a status response applied with success = false leaves the poller as it was
\* (polling, its timer active); one applied with success = true stops the timer;
\* and a status request is issued only by startPolling or by a tick of a timer that
\* is active, timers being set by startPolling only: none after the terminal
\* response, in that activation.
C12_ProgressToTerminal ==
    [][ /\ (ev' = "payApplied" /\ ~data'.success) =>
               /\ isPolling' = isPolling /\ timer' = timer /\ liveTimers' = liveTimers
        /\ (ev' = "payApplied" /\ data'.success) =>
               /\ ~isPolling' /\ ~timer' /\ liveTimers' = 0 /\ payLeft' = payLeft
        /\ payLeft' < payLeft => ev' = "payStart" \/ (ev' = "payTick" /\ liveTimers > 0)
        /\ liveTimers' > liveTimers => ev' = "payStart" ]_vars

\* the initial check and one tick have been answered, the second with success
C12_Witness ==
    /\ ev = "payApplied"
    /\ data = PaidData
    /\ payAlive /\ isOpen
    /\ payLeft = MaxStatusReqs - 2
    /\ payReqs = EmptyBag
    /\ ~error

\* ---------------------------------------------------------------- C13
\* C13: once a response with success = true has been applied and has stopped the
\* poller, data.value.success stays true as long as polling is not started again,
\* whatever responses of requests still in flight arrive.
C13_PaidIsTerminal ==
    [][(data.success /\ ~isPolling /\ ~isPolling') => data'.success]_vars

\* ---------------------------------------------------------------- C14
\* C14: a failed status request sets error.value, leaves data.value, the timer and
\* isPolling as they were, and every later tick of the timer issues a status
\* request for the code, error or not.
C14_PollingFault ==
    [][ /\ ev' = "payFailed" =>
               /\ error' /\ data' = data
               /\ isPolling' = isPolling /\ timer' = timer /\ liveTimers' = liveTimers
        /\ (ev' = "payTick" /\ code # "") =>
               /\ payLeft' = payLeft - 1
               /\ payReqs' = Put(payReqs, [code |-> code, st |-> "wait"]) ]_vars

\* after a failed request the poller is still polling and a tick has issued the
\* next one
C14_Witness ==
    /\ ev = "payTick"
    /\ error
    /\ isPolling /\ liveTimers = 1
    /\ data = InitialData
    /\ payReqs = SetToBag({[code |-> code, st |-> "wait"]})
    /\ payLeft = MaxStatusReqs - 2

\* ---------------------------------------------------------------- C15
\* C15: at most one setInterval registration of a poller is active in every state,
\* and startPolling called while the poller is polling sets no timer and issues no
\* request.
C15_OneTimer ==
    [][ /\ liveTimers' <= 1
        /\ (isPolling /\ isOpen' /\ code' # "" /\ ev' \in {"props", "payStart"}) =>
               /\ timer' = timer /\ liveTimers' = liveTimers /\ isPolling'
               /\ payReqs' = payReqs /\ payLeft' = payLeft ]_vars

\* the code changes while the poller polls: the watcher has called startPolling
C15_Witness ==
    /\ ev = "props"
    /\ isPolling /\ liveTimers = 1
    /\ isOpen /\ code = "c2"
    /\ payReqs = SetToBag({[code |-> "c1", st |-> "wait"]})

\* ---------------------------------------------------------------- C16
\* C16: whenever the dialog is closed or torn down the poller is not polling and no
\* setInterval registration is active: closing and tearing down stop the timer in
\* the same step, and no tick (PayTick) fires until the dialog is opened again.
C16_CloseStops ==
    (~isOpen \/ ~payAlive) => liveTimers = 0 /\ ~timer /\ ~isPolling

\* the host has closed the dialog while the poller was polling, a request in flight
C16_Witness ==
    /\ ev = "props"
    /\ payAlive /\ ~isOpen
    /\ ~data.success
    /\ closeTimers = 0
    /\ \E q \in BagToSet(payReqs) : q.st = "wait"

\* ---------------------------------------------------------------- C17
\* C17: while the dialog is open with an empty payment code the poller is not
\* polling and no setInterval registration is active: clearing the code stops the
\* timer.
C17_ClearStops ==
    (payAlive /\ isOpen /\ code = "") => ~isPolling /\ liveTimers = 0

\* ---------------------------------------------------------------- C18
\* C18: when the poller is started on a code other than the one its snapshot was
\* asked for, the snapshot it exposes from that moment is the initial one
\* (success = false, paid = 0, total = 0).
C18_RestartFromIdle ==
    [][(ev' = "payStart" /\ dataCode' # code') => data' = InitialData]_vars

\* ---------------------------------------------------------------- C19
\* C19 (as claimed): every change of data.value.success from false to true has
\* exactly one success notification, emitted or still waiting for the display
\* delay.
C19_EveryTransitionNotified ==
    emits + closeTimers = paidCount

\* C19: while the dialog is mounted, each change of data.value.success from false
\* to true sets exactly one display timeout and nothing else sets one; a timeout
\* that fires with the dialog mounted emits success exactly once (then
\* payment-complete and close); and success is emitted by such a timeout only, so
\* never more often than success = true responses were applied.
C19_CompletionSignal ==
    [][ /\ (payAlive /\ ~data.success /\ data'.success) => closeTimers' = closeTimers + 1
        /\ closeTimers' > closeTimers =>
               /\ ~data.success /\ data'.success /\ ev' = "payApplied"
               /\ closeTimers' = closeTimers + 1
        /\ (ev' = "closeFired" /\ payAlive) => emits' = emits + 1 /\ ~isOpen'
        /\ emits' # emits =>
               /\ ev' = "closeFired" /\ closeTimers' = closeTimers - 1
               /\ emits' = emits + 1 /\ emits' <= paidCount ]_vars

\* the timeout of a paid snapshot has fired with the dialog mounted
C19_Witness ==
    /\ ev = "closeFired"
    /\ payAlive
    /\ emits = 1 /\ paidCount = 1 /\ closeTimers = 0
    /\ data.success

\* ---------------------------------------------------------------- C20
\* C20: the poller enters polling only in a step that starts it with the dialog
\* open on a non-empty code, and no status request in flight carries an empty code.
C20_NonEmptyCode ==
    [][ /\ (~isPolling /\ isPolling') => isOpen' /\ code' # "" /\ ev' = "payStart"
        /\ \A q \in BagToSet(payReqs') : q.code # ""
        /\ (code = "" /\ ev' = "payTick") => payReqs' = payReqs ]_vars

\* a tick has fired with an empty code: no request was issued
C20_Witness ==
    /\ ev = "payTick"
    /\ code = ""
    /\ isPolling
    /\ payLeft = MaxStatusReqs - 1
    /\ payReqs = EmptyBag

\* ---------------------------------------------------------------- C21
\* the step in which the store applies the write w
Serves(w) ==
    /\ w \in BagToSet(writes) /\ w.st = "sent"
    /\ writes' = Swap(writes, w, [w EXCEPT !.st = "ok"])

\* C21: the store applies a presence write as an upsert on its key: the row of
\* (member, interval) holds the written value afterwards and no other row changes;
\* applying the same write to a store that already holds that value changes
\* nothing; and the confirmation changes no local cell or flag, so that two equal
\* writes end as one does.
C21_IdempotentUpsert ==
    [][ /\ \A w \in BagToSet(writes) : (Serves(w) /\ w.kind = "pres") =>
               /\ rPres' = SetKey(rPres, <<w.m, w.i>>, w.val)
               /\ SetKey(rPres', <<w.m, w.i>>, w.val) = rPres'
               /\ (RemoteVal(w.m, w.i) = w.val /\ <<w.m, w.i>> \in DOMAIN rPres) => rPres' = rPres
               /\ presence' = presence /\ registrations' = registrations
        /\ ev' = "writeConfirmed" => presence' = presence /\ registrations' = registrations
      ]_vars

\* two equal presence writes have both been applied by the store
C21_Witness ==
    \E w \in BagToSet(writes) : w.kind = "pres" /\ w.st = "ok" /\ writes[w] = 2

\* ---------------------------------------------------------------- C22
\* the step of a resync that assigns registrations.value
AssignsRegs ==
    \E r \in BagToSet(syncs) :
        /\ r.pc = "regs" /\ r.st # "wait"
        /\ syncs' = Swap(syncs, r, Sync("pres", "wait", r.regs, EmptyFn, intervals))

\* C22 (as claimed): once session.value.status is closed no write is issued, and a
\* presence cell or an absence flag changes in the steps of a resync only.
C22_OnlyResyncsChange ==
    [][session = "closed" =>
          /\ BagCardinality(writes') <= BagCardinality(writes)
          /\ (presence' # presence \/ registrations' # registrations) =>
                 (ev' = "fold" \/ AssignsRegs) ]_vars

\* C22: once session.value.status is closed no write is issued and no toggle of
\* the operator runs; a presence cell or an absence flag changes in the steps of a
\* resync and in the rollback of a write that was issued before the close.
C22_FrozenWhenClosed ==
    [][session = "closed" =>
          /\ BagCardinality(writes') <= BagCardinality(writes)
          /\ ev' \notin {"togglePresence", "toggleAbsent"}
          /\ (presence' # presence \/ registrations' # registrations) =>
                 (ev' \in {"fold", "writeReverted"} \/ AssignsRegs) ]_vars

\* the session is known to be closed, the operator is signed in and has toggles
\* left, and a write issued before the close has just been rolled back
C22_Witness ==
    /\ session = "closed"
    /\ auth /\ phase = "mounted"
    /\ "m1" \in DOMAIN registrations /\ "m1" \in DOMAIN presence
    /\ budget.toggles > 0
    /\ ev = "writeReverted"

\* ---------------------------------------------------------------- C23
\* C23: while the user is not authenticated no remote write is in flight or issued,
\* no toggle of the operator runs, a presence cell or an absence flag changes in
\* the steps of a resync only, and fetchCosts is invoked by a resync only.
C23_AnonymousReadOnly ==
    [][~auth =>
          /\ writes' = EmptyBag
          /\ ev' \notin {"togglePresence", "toggleAbsent", "writeConfirmed", "writeReverted"}
          /\ (presence' # presence \/ registrations' # registrations) =>
                 (ev' = "fold" \/ AssignsRegs)
          /\ NumCosts' > NumCosts => ev' \in {"fold", "snapshot"} ]_vars

\* an anonymous user looks at the loaded table of an open session, a row of a
\* member who attends
C23_Witness ==
    /\ ~auth /\ phase = "mounted"
    /\ session = "active"
    /\ "m1" \in DOMAIN registrations /\ ~registrations["m1"]
    /\ "m1" \in DOMAIN presence /\ "i1" \in intervals
    /\ budget.toggles = MaxToggles
    /\ writes = EmptyBag

\* ---------------------------------------------------------------- C24
\* C24: the step that rolls back a failed presence or absence write also shows a
\* notification to the user.
C24_FailureSurfaces ==
    [][ev' = "writeReverted" => ev' \in ToastSteps]_vars

MaxWriteFaults == 2

RaceInit ==
    /\ PayIdle
    /\ OtherIdle
    /\ payAlive = FALSE
    /\ payLeft = 0
    /\ rRegs = [m \in {"m1"} |-> FALSE]
    /\ rPres = EmptyFn
    /\ rStatus = "active"
    /\ phase = "setup"
    /\ auth = TRUE
    /\ session = "null"
    /\ intervals = {}
    /\ allMembers = {}
    /\ isEditingSession = FALSE
    /\ sessionForm = ""
    /\ registrations = EmptyFn
    /\ presence = EmptyFn
    /\ costs = EmptyFn
    /\ pollTimer = FALSE
    /\ viewTimers = 0
    /\ realtimeChannel = FALSE
    /\ syncs = EmptyBag
    /\ writes = EmptyBag
    /\ costReqs = EmptyBag
    /\ budget = [toggles |-> MaxToggles, edits |-> 0, starts |-> 0, faults |-> MaxWriteFaults]
    /\ ev = "init"
    /\ costsFresh = TRUE
    /\ dirty = TRUE

RaceNext ==
    \/ onMounted
    \/ SyncStep
    \/ CostStep
    \/ \E m \in Members, i \in Intervals : togglePresence(m, i)
    \/ WriteStep
    \/ \E w \in BagToSet(writes) : FailWrite(w)
    \/ onUnmounted

RaceSpec == RaceInit /\ [][RaceNext]_vars

\* C27: when the two toggles of the cell have both had their writes fail and both
\* failures are handled, the cell holds the value it had before the first toggle,
\* which is the value of the store, no write having reached it.
C27_BothFailuresRestore ==
    (/\ phase = "mounted" /\ "m1" \in DOMAIN presence
     /\ budget.toggles = 0 /\ budget.faults = 0 /\ writes = EmptyBag)
        => CellVal("m1", "i1") = RemoteVal("m1", "i1")

\* ---------------------------------------------------------------- C28
\* C28: with no toggle of this operator and no failed read in the run, when the
\* last resync in flight folds, the registration list is the list that resync fetched and the matrix is
\* the one of its own list and its own presence rows.
C28_LastResyncWins ==
    [][\A r \in BagToSet(syncs) :
          (/\ Folds(r) /\ BagCardinality(syncs) = 1
           /\ budget.toggles = MaxToggles /\ budget.faults = MaxFaults)
              => /\ registrations' = r.regs
                 /\ presence' = FoldMatrix(r.regs, intervals, r.rows) ]_vars

\* ---------------------------------------------------------------- C29
\* C29: a poll tick and a notification callback each add exactly one call of
\* fetchData(true) to the resyncs in flight, however many are in flight already,
\* and change nothing else; neither adds a call of fetchData().
C29_LightResyncPerEvent ==
    [][ev' \in {"pollTick", "notification"} =>
           /\ syncs' = Put(syncs, Waiting("sessLight"))
           /\ UNCHANGED <<remoteVars, lifeVars, listVars, costs, writes, costReqs>> ]_vars

\* a notification callback has run while another resync waits for its presence rows
C29_Witness ==
    /\ ev = "notification"
    /\ BagCardinality(syncs) = 2
    /\ \E r \in BagToSet(syncs) : r.pc = "pres"
    /\ \E r \in BagToSet(syncs) : r.pc = "sessLight"

\* ---------------------------------------------------------------- C30
\* C30: the interval list and the member list change only when an intervals read,
\* or a members read, returns; those reads are issued only by a call of
\* fetchData() after its session read, the members read after the intervals read;
\* a call of fetchData(true) goes from its session read to the registrations read.
C30_LightKeepsLists ==
    [][ /\ intervals' # intervals =>
               \E r \in BagToSet(syncs) :
                   r.pc = "ivals" /\ syncs' = Swap(syncs, r, Waiting("members"))
        /\ allMembers' # allMembers =>
               \E r \in BagToSet(syncs) :
                   r.pc = "members" /\ syncs' = Swap(syncs, r, Waiting("regs"))
        /\ NumAt("ivals")' > NumAt("ivals") =>
               \E r \in BagToSet(syncs) :
                   r.pc = "sessFull" /\ syncs' = Swap(syncs, r, Waiting("ivals"))
        /\ NumAt("members")' > NumAt("members") => NumAt("ivals")' < NumAt("ivals")
        /\ \A r \in BagToSet(syncs) :
               (r.pc = "sessLight" /\ CopiesIn(r, syncs') < CopiesIn(r, syncs)) =>
                   /\ syncs' \in {Take(syncs, r), Swap(syncs, r, Waiting("regs"))}
                   /\ intervals' = intervals /\ allMembers' = allMembers ]_vars

\* the session read of the mount's fetchData() failed, so that neither list was
\* loaded; a lightweight resync has then fetched the registrations and folded, and
\* both lists are still empty
C30_Witness ==
    /\ ev = "fold" /\ syncs = EmptyBag
    /\ budget.faults = MaxFaults - 1 /\ budget.starts = MaxStarts - 1
    /\ registrations # EmptyFn
    /\ intervals = {} /\ allMembers = {}

\* ---------------------------------------------------------------- the session edit form
\* the edit button: @click="isEditingSession = true", rendered for a signed-in
\* operator when the session is loaded and not closed
EditSession ==
    /\ phase = "mounted"
    /\ auth /\ session \notin {"null", "closed"}
    /\ ~isEditingSession
    /\ isEditingSession' = TRUE
    /\ ev' = "editForm"
    /\ UNCHANGED <<payVars, otherVars, remoteVars, lifeVars, session, intervals, allMembers, sessionForm,
                   registrations, presence, costs, syncs, writes, costReqs, budget, ghostVars>>

\* the operator types into an input of the form: v-model="sessionForm.title"
TypeTitle ==
    /\ phase = "mounted"
    /\ isEditingSession /\ auth
    /\ sessionForm # "typed"
    /\ sessionForm' = "typed"
    /\ ev' = "typeForm"
    /\ UNCHANGED <<payVars, otherVars, remoteVars, lifeVars, session, intervals, allMembers,
                   isEditingSession, registrations, presence, costs, syncs, writes, costReqs,
                   budget, ghostVars>>

\* the close and cancel buttons of the form: @click="isEditingSession = false"
CloseEdit ==
    /\ phase = "mounted"
    /\ isEditingSession /\ auth
    /\ isEditingSession' = FALSE
    /\ ev' = "editForm"
    /\ UNCHANGED <<payVars, otherVars, remoteVars, lifeVars, session, intervals, allMembers, sessionForm,
                   registrations, presence, costs, syncs, writes, costReqs, budget, ghostVars>>

FormInit == CloseInit

FormNext ==
    \/ onMounted
    \/ PollTick
    \/ Notification
    \/ SyncStep
    \/ CostStep
    \/ EditSession
    \/ TypeTitle
    \/ CloseEdit
    \/ onUnmounted

FormSpec == FormInit /\ [][FormNext]_vars

\* ---------------------------------------------------------------- C31
\* C31: the step in which a call of fetchData(true) gets its session row leaves
\* the session edit form as it is, so that what the operator typed while editing
\* is still in the form.
C31_LightKeepsForm ==
    [][\A r \in BagToSet(syncs) :
          (/\ r.pc = "sessLight" /\ CopiesIn(r, syncs') < CopiesIn(r, syncs)
           /\ isEditingSession /\ sessionForm = "typed")
              => sessionForm' = sessionForm ]_vars

\* ---------------------------------------------------------------- C32
\* C32 (as claimed): an intervals read is issued only in the step in which the
\* registrations read of that resync returns.
C32_RegsBeforeIntervals ==
    [][NumAt("ivals")' > NumAt("ivals") =>
           \E r \in BagToSet(syncs) :
               r.pc = "regs" /\ r.st # "wait" /\ CopiesIn(r, syncs') < CopiesIn(r, syncs) ]_vars

\* C32: a resync issues its reads one after the other's return, in the order
\* session, intervals and members (fetchData() only), registrations, presence rows;
\* the presence read is filtered to the interval list the view holds when the
\* registrations read returns, and its answer holds the store's rows of that filter.
C32_ReadOrder ==
    [][ /\ NumAt("ivals")' > NumAt("ivals") =>
               \E r \in BagToSet(syncs) :
                   r.pc = "sessFull" /\ CopiesIn(r, syncs') < CopiesIn(r, syncs)
        /\ NumAt("members")' > NumAt("members") =>
               \E r \in BagToSet(syncs) :
                   r.pc = "ivals" /\ CopiesIn(r, syncs') < CopiesIn(r, syncs)
        /\ NumAt("regs")' > NumAt("regs") =>
               \E r \in BagToSet(syncs) :
                   r.pc \in {"members", "sessLight"} /\ CopiesIn(r, syncs') < CopiesIn(r, syncs)
        /\ NumAt("pres")' > NumAt("pres") =>
               \E r \in BagToSet(syncs) :
                   /\ r.pc = "regs" /\ r.st # "wait"
                   /\ syncs' = Swap(syncs, r, Sync("pres", "wait", r.regs, EmptyFn, intervals))
        /\ \A r \in BagToSet(syncs) :
               (r.pc = "pres" /\ r.st = "wait" /\ CopiesIn(r, syncs') < CopiesIn(r, syncs)) =>
                   \E q \in BagToSet(syncs') :
                       /\ q.pc = "pres" /\ q.st \in {"ok", "err"}
                       /\ q.st = "ok" =>
                              q.rows = [c \in {d \in DOMAIN rPres : d[2] \in r.filter} |-> rPres[c]]
      ]_vars

\* a resync's presence read has been answered with a row of the interval it asked for
C32_Witness ==
    \E r \in BagToSet(syncs) :
        /\ r.pc = "pres" /\ r.st = "ok"
        /\ intervals = Intervals
        /\ <<"m1", "i1">> \in DOMAIN r.rows

\* ---------------------------------------------------------------- C33
\* C33: every cell a fold writes holds the is_present value the store held for its
\* pair when it answered that resync's presence read, false where it held no row.
C33_FoldReflectsStore ==
    [][\A r \in BagToSet(syncs) :
          (Folds(r) /\ r.st = "ok") =>
              \A m \in DOMAIN presence' : \A i \in DOMAIN presence'[m] :
                  presence'[m][i] = IF <<m, i>> \in DOMAIN r.held THEN r.held[<<m, i>>]
                                    ELSE FALSE ]_vars

\* ---------------------------------------------------------------- C34
\* C34: the step in which a resync takes up a failed registrations read keeps every
\* registration of the list, and the fold of a resync whose presence read failed
\* keeps every cell that was true.
C34_ReadFaultKeepsState ==
    [][\A r \in BagToSet(syncs) :
          /\ (r.pc = "regs" /\ r.st = "err" /\ CopiesIn(r, syncs') < CopiesIn(r, syncs))
                 => \A m \in DOMAIN registrations :
                        m \in DOMAIN registrations' /\ registrations'[m] = registrations[m]
          /\ (Folds(r) /\ r.st = "err")
                 => \A m \in Members, i \in Intervals : CellVal(m, i) => CellVal(m, i)' ]_vars

\* ---------------------------------------------------------------- C35
\* C35: the step that handles a failed write invokes no fetchCosts, leaves the cost
\* cache, the session, the lists and the resyncs in flight as they are, and changes
\* at most the toggled cell (a presence write) or the toggled flag (an absence write).
C35_FailureOnlyRollsBack ==
    [][\A w \in BagToSet(writes) :
          (Returns(w) /\ w.st = "err") =>
              /\ costReqs' = costReqs /\ costs' = costs
              /\ UNCHANGED <<session, intervals, allMembers, formVars, syncs, remoteVars>>
              /\ w.kind = "pres" =>
                     /\ registrations' = registrations
                     /\ DOMAIN presence' = DOMAIN presence
                     /\ \A m \in DOMAIN presence : \A i \in DOMAIN presence[m] :
                            <<m, i>> # <<w.m, w.i>> =>
                                i \in DOMAIN presence'[m] /\ presence'[m][i] = presence[m][i]
              /\ w.kind = "abs" =>
                     /\ presence' = presence
                     /\ DOMAIN registrations' = DOMAIN registrations
                     /\ \A m \in DOMAIN registrations :
                            m # w.m => registrations'[m] = registrations[m] ]_vars

\* a failed presence write has been rolled back with the costs loaded and no
\* fetchCosts call in flight
C35_Witness ==
    /\ ev = "writeReverted"
    /\ costs # EmptyFn /\ costReqs = EmptyBag
    /\ writes = EmptyBag
    /\ "m1" \in DOMAIN presence /\ ~CellVal("m1", "i1")
    /\ budget.toggles = MaxToggles - 1

\* ---------------------------------------------------------------- C36
\* C36: a status response is applied to data.value only while the poller is polling
\* and only when it was asked for the code that is active now.
C36_OnlyActiveCode ==
    [][ev' = "payApplied" => (isPolling /\ dataCode' = code)]_vars

\* ---------------------------------------------------------------- the view's timer functions
\* startPolling() and stopPolling() of the mounted view applied in any order, to
\* check what the two functions keep whatever their callers are
CallStartPolling ==
    /\ phase = "mounted"
    /\ ViewStartPolling
    /\ ev' = IF pollTimer THEN "viewStartAgain" ELSE "viewStart"
    /\ UNCHANGED <<payVars, otherVars, remoteVars, phase, auth, realtimeChannel, listVars, costs, syncs,
                   writes, costReqs, budget, ghostVars>>

CallStopPolling ==
    /\ phase = "mounted"
    /\ ViewStopPolling
    /\ ev' = "viewStop"
    /\ UNCHANGED <<payVars, otherVars, remoteVars, phase, auth, realtimeChannel, listVars, costs, syncs,
                   writes, costReqs, budget, ghostVars>>

TimerInit == CloseInit

TimerNext ==
    \/ onMounted
    \/ CallStartPolling
    \/ CallStopPolling
    \/ PollTick
    \/ SyncStep
    \/ CostStep
    \/ onUnmounted

TimerSpec == TimerInit /\ [][TimerNext]_vars

\* ---------------------------------------------------------------- C37
\* C37: the view has at most one setInterval registration that is not cleared, it
\* has one exactly when pollTimer is set, none before the mount and none once
\* stopPolling has run or the view is unmounted.
C37_OneViewTimer ==
    /\ viewTimers \in {0, 1}
    /\ pollTimer <=> viewTimers = 1
    /\ phase \in {"setup", "unmounted"} => viewTimers = 0
    /\ ev = "viewStop" => viewTimers = 0
    /\ ev \in {"viewStart", "viewStartAgain"} => viewTimers = 1

\* startPolling has been called while the timer of the mount existed
C37_Witness ==
    /\ ev = "viewStartAgain"
    /\ phase = "mounted" /\ pollTimer /\ viewTimers = 1

\* ---------------------------------------------------------------- mergeTimeIntervals
\* Times are counted in slots from the midnight of the first day; a day has DaySlots
\* slots, an interval of a session is one slot long, and the intervals of one call
\* (those of one session) are distinct and start less than MaxSpan slots apart.
DaySlots == 6
MaxStart == 6
MaxSpan == 4
MaxLen == 3

Slot(s) == [start_time |-> s, end_time |-> s + 1]

\* formatTime: the HH:mm of the string (time.split('T')[1].substring(0, 5)), which
\* drops the date
formatTime(time) == time % DaySlots

\* [...intervals].sort(by formatTime(start_time)): Array.prototype.sort is stable
RECURSIVE InsertSorted(_, _)
InsertSorted(sorted, x) ==
    IF sorted = << >> THEN <<x>>
    ELSE IF formatTime(Head(sorted).start_time) <= formatTime(x.start_time)
         THEN <<Head(sorted)>> \o InsertSorted(Tail(sorted), x)
         ELSE <<x>> \o sorted

RECURSIVE SortByStart(_)
SortByStart(list) ==
    IF list = << >> THEN << >>
    ELSE InsertSorted(SortByStart(SubSeq(list, 1, Len(list) - 1)),
                      list[Len(list)])

\* the loop over sorted[1..]: merge when current.end === next.start, else push
RECURSIVE MergeLoop(_, _, _)
MergeLoop(rest, current, merged) ==
    IF rest = << >> THEN Append(merged, current)
    ELSE LET next == <<formatTime(Head(rest).start_time), formatTime(Head(rest).end_time)>> IN
         IF current[2] = next[1]
         THEN MergeLoop(Tail(rest), <<current[1], next[2]>>, merged)
         ELSE MergeLoop(Tail(rest), next, Append(merged, current))

\* the ranges <<start, end>> of the returned string, in its order; << >> for ''
mergeTimeIntervals(list) ==
    IF list = << >> THEN << >>
    ELSE LET sorted == SortByStart(list) IN
         MergeLoop(Tail(sorted),
                   <<formatTime(sorted[1].start_time), formatTime(sorted[1].end_time)>>, << >>)

MergeInputs ==
    {[k \in DOMAIN q |-> Slot(q[k])] :
        q \in {f \in UNION {[1..n -> 0..MaxStart] : n \in 0..MaxLen} :
                  \A a, b \in DOMAIN f :
                      /\ a # b => f[a] # f[b]
                      /\ f[a] - f[b] < MaxSpan}}

MergeInit ==
    /\ ViewLoaded
    /\ PayIdle
    /\ RouteIdle
    /\ payAlive = FALSE
    /\ payLeft = 0
    /\ mergeIn \in MergeInputs
    /\ mergeOut = << >>
    /\ ev = "init"

ApplyMerge ==
    /\ ev = "init"
    /\ mergeOut' = mergeTimeIntervals(mergeIn)
    /\ ev' = "merged"
    /\ UNCHANGED <<coreVars, payVars, routeVars, mergeIn>>

MergeNext == ApplyMerge

MergeSpec == MergeInit /\ [][MergeNext]_vars

\* ---------------------------------------------------------------- C38
\* the maximal runs of intervals in which each ends when the next starts, as ranges
RunsOf(list) ==
    LET starts == {list[k].start_time : k \in DOMAIN list} IN
    {<<formatTime(a), formatTime(b)>> :
        <<a, b>> \in {r \in (0..MaxStart) \X (1..MaxStart + 1) :
                        /\ r[1] < r[2]
                        /\ \A t \in r[1]..(r[2] - 1) : t \in starts
                        /\ (r[1] - 1) \notin starts /\ r[2] \notin starts}}

\* C38: the ranges returned are the runs of consecutive intervals of the list, each
\* run one range and intervals that are not consecutive in separate ranges, in
\* ascending start order; the result is the same for every order of the same
\* intervals; 0-1, 1-2, 3-4 gives 0-2 and 3-4; the empty list gives the empty string.
C38_MergesConsecutive ==
    ev = "merged" =>
        /\ mergeIn = << >> => mergeOut = << >>
        /\ {mergeOut[k] : k \in DOMAIN mergeOut} = RunsOf(mergeIn)
        /\ Len(mergeOut) = Cardinality(RunsOf(mergeIn))
        /\ \A a, b \in DOMAIN mergeOut : a < b => mergeOut[a][1] < mergeOut[b][1]
        /\ \A p \in MergeInputs :
               {p[k] : k \in DOMAIN p} = {mergeIn[k] : k \in DOMAIN mergeIn}
                   => mergeTimeIntervals(p) = mergeOut
        /\ mergeIn = <<Slot(0), Slot(1), Slot(3)>> => mergeOut = <<<<0, 2>>, <<3, 4>>>>

\* ---------------------------------------------------------------- the route guard
Routes == {"home", "login", "dashboard"}
Roles == {"none", "admin", "member"}
MaxNavs == 2
MaxRouteSteps == 4

\* meta of the route records: dashboard (and create-session) require both
requiresAuth(to) == to = "dashboard"
requiresAdmin(to) == to = "dashboard"

\* the guard without its requiresAdmin test
MutOutcome(to, u, p) ==
    IF requiresAuth(to) /\ ~u THEN "login" ELSE to

\* the guard after its wait: next({ name: 'login' }), next({ name: 'home' }) or
\* next(); u is isAuthenticated, p the role of the profile
Outcome(to, u, p) ==
    IF requiresAuth(to) /\ ~u THEN "login"
    ELSE IF requiresAdmin(to) /\ p # "admin" THEN "home"
    ELSE to

\* router.beforeEach for a navigation to `to`: with loading set it calls
\* authStore.initialize() (loading.value = true, getSession is issued) and waits,
\* otherwise it decides in the same run
Navigate(to) ==
    /\ routeLeft > 0
    /\ routeLeft' = routeLeft - 1
    /\ IF loading
       THEN /\ BagCardinality(navs) < MaxNavs
            /\ navs' = Put(navs, [to |-> to, pc |-> "getSession"])
            /\ ev' = "navWait"
            /\ UNCHANGED <<route, navTo>>
       ELSE /\ route' = Outcome(to, user, profile)
            /\ navTo' = to
            /\ ev' = "navDone"
            /\ UNCHANGED navs
    /\ UNCHANGED <<coreVars, payVars, mergeVars, user, profile, loading, listeners, rSession,
                   rRole, profs>>

\* initialize after getSession: user.value = session?.user ?? null; with a user
\* fetchProfile is issued, without one initialize ends (loading.value = false, the
\* auth callback is registered) and the guard that waited for it decides
InitGotSession(n) ==
    /\ n.pc = "getSession"
    /\ user' = rSession
    /\ IF rSession
       THEN /\ navs' = Swap(navs, n, [n EXCEPT !.pc = "profile"])
            /\ ev' = "step"
            /\ UNCHANGED <<loading, listeners, route, navTo>>
       ELSE /\ navs' = Take(navs, n)
            /\ loading' = FALSE
            /\ listeners' = listeners + 1
            /\ route' = Outcome(n.to, FALSE, profile)
            /\ navTo' = n.to
            /\ ev' = "navDone"
    /\ UNCHANGED <<coreVars, payVars, mergeVars, profile, rSession, rRole, profs, routeLeft>>

\* initialize after fetchProfile: profile.value = data unless the read returned an
\* error (no row, or a fault); then loading.value = false, the auth callback is
\* registered and the guard that waited decides
InitGotProfile(n, ok) ==
    /\ n.pc = "profile"
    /\ profile' = IF ok /\ rRole # "none" THEN rRole ELSE profile
    /\ navs' = Take(navs, n)
    /\ loading' = FALSE
    /\ listeners' = listeners + 1
    /\ route' = Outcome(n.to, user, profile')
    /\ navTo' = n.to
    /\ ev' = "navDone"
    /\ UNCHANGED <<coreVars, payVars, mergeVars, user, rSession, rRole, profs, routeLeft>>

\* the user signs in: every registered auth callback sets user.value and issues
\* fetchProfile
SignIn ==
    /\ routeLeft > 0 /\ ~rSession
    /\ routeLeft' = routeLeft - 1
    /\ rSession' = TRUE
    /\ user' = (user \/ listeners > 0)
    /\ profs' = profs + listeners
    /\ ev' = "authChange"
    /\ UNCHANGED <<coreVars, payVars, mergeVars, profile, loading, listeners, rRole, navs,
                   route, navTo>>

\* signOut of the store: user.value = null, profile.value = null (the auth
\* callbacks do the same)
SignOut ==
    /\ routeLeft > 0 /\ rSession
    /\ routeLeft' = routeLeft - 1
    /\ rSession' = FALSE
    /\ user' = FALSE
    /\ profile' = "none"
    /\ ev' = "authChange"
    /\ UNCHANGED <<coreVars, payVars, mergeVars, loading, listeners, rRole, navs, profs,
                   route, navTo>>

\* fetchProfile of an auth callback returns
ProfReturn(ok) ==
    /\ profs > 0
    /\ profs' = profs - 1
    /\ profile' = IF ok /\ rRole # "none" THEN rRole ELSE profile
    /\ ev' = "step"
    /\ UNCHANGED <<coreVars, payVars, mergeVars, user, loading, listeners, rSession, rRole,
                   navs, route, navTo, routeLeft>>

RouteInit ==
    /\ ViewLoaded
    /\ PayIdle
    /\ MergeIdle
    /\ payAlive = FALSE
    /\ payLeft = 0
    /\ user = FALSE
    /\ profile = "none"
    /\ loading = TRUE
    /\ listeners = 0
    /\ rSession \in BOOLEAN
    /\ rRole \in Roles
    /\ navs = EmptyBag
    /\ profs = 0
    /\ route = "none"
    /\ navTo = "none"
    /\ routeLeft = MaxRouteSteps
    /\ ev = "init"

RouteNext ==
    \/ \E to \in Routes : Navigate(to)
    \/ \E n \in BagToSet(navs) : InitGotSession(n)
    \/ \E n \in BagToSet(navs), ok \in BOOLEAN : InitGotProfile(n, ok)
    \/ SignIn
    \/ SignOut
    \/ \E ok \in BOOLEAN : ProfReturn(ok)

RouteSpec == RouteInit /\ [][RouteNext]_vars

\* ---------------------------------------------------------------- C39
\* C39: a navigation that is decided ends on login when its route requires
\* authentication and the store has no user, on home when its route requires the
\* admin role and the profile of the store is not admin; it ends on such a route
\* only with a user, and an admin profile; and it is decided only when an
\* initialize of the auth store has finished (loading is false).
C39_RouteGuard ==
    [][ev' = "navDone" =>
           /\ (requiresAuth(navTo') /\ ~user') => route' = "login"
           /\ (requiresAdmin(navTo') /\ user' /\ profile' # "admin") => route' = "home"
           /\ requiresAuth(route') => user'
           /\ requiresAdmin(route') => profile' = "admin"
           /\ ~loading' /\ listeners' > 0 ]_vars

\* a signed-in member asked for the dashboard, the guard waited for initialize and
\* the navigation ended on home
C39_Witness ==
    /\ ev = "navDone"
    /\ navTo = "dashboard" /\ route = "home"
    /\ user /\ profile = "member"
    /\ listeners = 1

====
